---- MODULE Spec2Model ----
(***************************************************************************)
(* Document Photo Preparation System.                                      *)
(*                                                                         *)
(* The model has three parts.                                              *)
(*  - The validator (utils/validation.js): validatePhoto and its helpers   *)
(*    as operators over a detector result, computed in exact rational      *)
(*    arithmetic with the IEEE-754 outcomes of a division by zero          *)
(*    (Infinity, NaN) kept.                                                *)
(*  - The workflow controller (App.jsx): the React state of App, the       *)
(*    module-level modelsLoaded flag and the asynchronous pipeline runs    *)
(*    (FileReader -> validatePhoto -> processPhoto).  One action is one    *)
(*    synchronous segment of a handler, from one await (or callback)       *)
(*    to the next.                                                         *)
(*  - The pixel work (utils/processing.js, utils/layoutGeneration.js):     *)
(*    the optimization filters over RGBA bytes and the geometry of the     *)
(*    recompose step and of the two print sheets, as operators applied to  *)
(*    one call at a time.                                                  *)
(***************************************************************************)
EXTENDS Integers, Sequences, FiniteSets, TLC

VARIABLES
    step,             \* App state: 'upload' | 'validating' | 'processing' | 'layout'
    imageFile,        \* App state: the accepted File, or NoFile
    imageData,        \* App state: the data URL read from the file, or Null
    validationResult, \* App state: the report of validatePhoto, or NoReport
    processedImage,   \* App state: the output of processPhoto, or NoPhoto
    loading,          \* App state: boolean
    error,            \* App state: the error banner text, or NoError
    modelsLoaded,     \* validation.js module variable
    runs,             \* the pipeline runs in flight, by slot
    vIn,              \* validator harness: the decoded image handed to the detector
    vOut,             \* validator harness: the report returned for vIn
    gIn,              \* function harness: the call, [op |-> name, ...arguments]
    gOut,             \* function harness: what the call returned for gIn
    layoutLoading,    \* LayoutSelection state `loading` of the mounted instance
    sheets,           \* the sheet generations whose promise is pending
    downloaded        \* the filename last handed to downloadImage, or NoDownload

vars == <<step, imageFile, imageData, validationResult, processedImage,
          loading, error, modelsLoaded, runs, vIn, vOut, gIn, gOut,
          layoutLoading, sheets, downloaded>>

\* The state of LayoutSelection and of the layout promises it started.
layoutVars == <<layoutLoading, sheets, downloaded>>

(***************************************************************************)
(* Bounds of the model.                                                    *)
(***************************************************************************)
\* Pipeline runs that may be in flight at once.
MaxRuns == 2
\* Largest number of faces the detector reports for one image.
MaxFaces == 12
\* Sheet generations that may be pending at once.
MaxSheets == 2

(***************************************************************************)
(* JavaScript values.                                                      *)
(***************************************************************************)
Null == "null"
NoFile == [null |-> TRUE]
NoReport == [null |-> TRUE]
NoPhoto == [null |-> TRUE]
NoError == [null |-> TRUE]
NoNote == "undefined"

Abs(n) == IF n < 0 THEN 0 - n ELSE n

\* arr[i] with JavaScript's 0-based index.
At(arr, i) == arr[i + 1]

\* n / d > a / b for d >= 0 and b > 0, as JavaScript's number division decides
\* it: n / 0 is Infinity for n > 0, -Infinity for n < 0 and NaN for n = 0, and
\* every comparison with NaN is false.
QuotGT(n, d, a, b) == IF d = 0 THEN n > 0 ELSE n * b > a * d

\* n / d < a / b, same conventions.
QuotLT(n, d, a, b) == IF d = 0 THEN n < 0 ELSE n * b < a * d

\* The decimal digits of a natural number, as template-literal interpolation
\* `${n}` writes them.
RECURSIVE ToDecimal(_)
ToDecimal(n) == IF n < 10 THEN <<n>> ELSE Append(ToDecimal(n \div 10), n % 10)

\* The number a digit sequence reads as.
RECURSIVE FromDecimal(_)
FromDecimal(ds) ==
    IF ds = <<>> THEN 0
    ELSE 10 * FromDecimal(SubSeq(ds, 1, Len(ds) - 1)) + ds[Len(ds)]

(***************************************************************************)
(* utils/validation.js: geometry helpers.                                  *)
(***************************************************************************)
RECURSIVE SumX(_)
SumX(points) == IF points = <<>> THEN 0 ELSE Head(points).x + SumX(Tail(points))

RECURSIVE SumY(_)
SumY(points) == IF points = <<>> THEN 0 ELSE Head(points).y + SumY(Tail(points))

\* getCenter: the centroid (sum.x / length, sum.y / length), kept as the
\* exact fractions sx / n and sy / n.
getCenter(points) == [sx |-> SumX(points), sy |-> SumY(points), n |-> Len(points)]

\* |atan2(dy, dx) * 180 / PI| > 15.  atan2(0, 0) = 0; otherwise the angle is
\* within 15 degrees iff dx > 0 and |dy| <= tan(15 deg) * dx, tan(15 deg) =
\* 2 - sqrt(3), i.e. 2 dx - |dy| >= 0 and 3 dx^2 <= (2 dx - |dy|)^2.
RollExceeds(dy, dx) ==
    ~ \/ (dx = 0 /\ dy = 0)
      \/ /\ dx > 0
         /\ 2 * dx - Abs(dy) >= 0
         /\ 3 * dx * dx <= (2 * dx - Abs(dy)) * (2 * dx - Abs(dy))

\* calculateFaceAngles with the arguments of Math.atan2 exchanged.
calculateFaceAnglesSwapped(landmarks) ==
    LET leftEyeCenter == getCenter(landmarks.leftEye)
        rightEyeCenter == getCenter(landmarks.rightEye)
        nL == leftEyeCenter.n
        nR == rightEyeCenter.n
        dxN == rightEyeCenter.sx * nL - leftEyeCenter.sx * nR
        dyN == rightEyeCenter.sy * nL - leftEyeCenter.sy * nR
        noseX == At(landmarks.nose, 0).x
    IN  [yawNum |-> 45 * (2 * nL * nR * noseX
                          - leftEyeCenter.sx * nR - rightEyeCenter.sx * nL),
         yawDen |-> 2 * Abs(dxN),
         rollDy |-> dxN,
         rollDx |-> dyN]

\* calculateFaceAngles.  With the centroids L = (SL / nL) and R = (SR / nR)
\* and D = nL * nR, the differences dx, dy are dxN / D and dyN / D, the
\* nose offset is (2 D noseX - SLx nR - SRx nL) / (2 |dxN|) and the yaw is
\* 45 times that.  The result keeps yaw as the fraction yawNum / yawDen and
\* roll as the direction (dyN, dxN) whose atan2 it is.
calculateFaceAngles(landmarks) ==
    LET leftEyeCenter == getCenter(landmarks.leftEye)
        rightEyeCenter == getCenter(landmarks.rightEye)
        nL == leftEyeCenter.n
        nR == rightEyeCenter.n
        dxN == rightEyeCenter.sx * nL - leftEyeCenter.sx * nR
        dyN == rightEyeCenter.sy * nL - leftEyeCenter.sy * nR
        noseX == At(landmarks.nose, 0).x
    IN  [yawNum |-> 45 * (2 * nL * nR * noseX
                          - leftEyeCenter.sx * nR - rightEyeCenter.sx * nL),
         yawDen |-> 2 * Abs(dxN),
         rollDy |-> dyN,
         rollDx |-> dxN]

\* Math.atan2(dy, dx) * (180 / Math.PI) where it is a whole number of
\* degrees: for (0, 0), which gives 0, and for the directions along the axes
\* and the diagonals.  Any other direction is reported as not whole.
Atan2Degrees(dy, dx) ==
    CASE dy = 0 /\ dx >= 0 -> [whole |-> TRUE, degrees |-> 0]
      [] dy = 0 /\ dx < 0 -> [whole |-> TRUE, degrees |-> 180]
      [] dx = 0 /\ dy > 0 -> [whole |-> TRUE, degrees |-> 90]
      [] dx = 0 /\ dy < 0 -> [whole |-> TRUE, degrees |-> -90]
      [] dy = dx /\ dx > 0 -> [whole |-> TRUE, degrees |-> 45]
      [] dy = dx /\ dx < 0 -> [whole |-> TRUE, degrees |-> -135]
      [] dy = 0 - dx /\ dx > 0 -> [whole |-> TRUE, degrees |-> -45]
      [] dy = 0 - dx /\ dx < 0 -> [whole |-> TRUE, degrees |-> 135]
      [] OTHER -> [whole |-> FALSE]

\* minEAR = 0.15 as the fraction MinEARNum / MinEARDen.
MinEARNum == 15
MinEARDen == 100

\* leftEAR and rightEAR of checkEyesVisible with one pixel added to each eye
\* width.
eyeAspectRatiosPadded(landmarks) ==
    LET leftEye == landmarks.leftEye
        rightEye == landmarks.rightEye
    IN  [leftEAR |-> [num |-> Abs(At(leftEye, 1).y - At(leftEye, 5).y),
                      den |-> Abs(At(leftEye, 3).x - At(leftEye, 0).x) + 1],
         rightEAR |-> [num |-> Abs(At(rightEye, 1).y - At(rightEye, 5).y),
                       den |-> Abs(At(rightEye, 3).x - At(rightEye, 0).x) + 1]]

\* leftEAR and rightEAR of checkEyesVisible, each the quotient
\* height / width kept as [num, den]; den is 0 for an eye of no width.
eyeAspectRatios(landmarks) ==
    LET leftEye == landmarks.leftEye
        rightEye == landmarks.rightEye
        leftEyeHeight == Abs(At(leftEye, 1).y - At(leftEye, 5).y)
        rightEyeHeight == Abs(At(rightEye, 1).y - At(rightEye, 5).y)
        leftEyeWidth == Abs(At(leftEye, 3).x - At(leftEye, 0).x)
        rightEyeWidth == Abs(At(rightEye, 3).x - At(rightEye, 0).x)
    IN  [leftEAR |-> [num |-> leftEyeHeight, den |-> leftEyeWidth],
         rightEAR |-> [num |-> rightEyeHeight, den |-> rightEyeWidth]]

\* checkEyesVisible: leftEAR > minEAR && rightEAR > minEAR.
checkEyesVisible(landmarks) ==
    LET ears == eyeAspectRatios(landmarks)
    IN  /\ QuotGT(ears.leftEAR.num, ears.leftEAR.den, MinEARNum, MinEARDen)
        /\ QuotGT(ears.rightEAR.num, ears.rightEAR.den, MinEARNum, MinEARDen)

\* const margin = 20 in checkFaceInFrame.
FrameMargin == 20

\* checkFaceInFrame with > for >= and < for <=: a box on the margin line is
\* refused.
checkFaceInFrameStrict(box, imgWidth, imgHeight) ==
    /\ box.x > FrameMargin
    /\ box.y > FrameMargin
    /\ box.x + box.width < imgWidth - FrameMargin
    /\ box.y + box.height < imgHeight - FrameMargin

\* checkFaceInFrame.
checkFaceInFrame(box, imgWidth, imgHeight) ==
    /\ box.x >= FrameMargin
    /\ box.y >= FrameMargin
    /\ box.x + box.width <= imgWidth - FrameMargin
    /\ box.y + box.height <= imgHeight - FrameMargin

\* The threshold 0.35 of checkNeutralExpression as MaxMARNum / MaxMARDen.
MaxMARNum == 35
MaxMARDen == 100

\* checkNeutralExpression.
checkNeutralExpression(landmarks) ==
    LET mouth == landmarks.mouth
        mouthHeight == Abs(At(mouth, 14).y - At(mouth, 18).y)
        mouthWidth == Abs(At(mouth, 12).x - At(mouth, 16).x)
    IN  QuotLT(mouthHeight, mouthWidth, MaxMARNum, MaxMARDen)

(***************************************************************************)
(* utils/validation.js: validatePhoto, from the detector's result on.      *)
(* img = [width, height, detections], detections a sequence of             *)
(* [box, landmarks]; landmarks = [leftEye, rightEye, nose, mouth], each a  *)
(* sequence of points [x, y].                                              *)
(***************************************************************************)
NoFaceData == [null |-> TRUE]

\* const maxYaw = 15 (degrees).  maxRoll = 15 is the angle RollExceeds tests.
MaxYaw == 15

\* minRatio = 0.5 and maxRatio = 0.75 as fractions.
MinRatioNum == 1
MinRatioDen == 2
MaxRatioNum == 3
MaxRatioDen == 4

\* (headSizeRatio * 100).toFixed(0) for a positive image height: the nearest
\* whole percent, as digits.
HeadPercent(boxHeight, imgHeight) ==
    ToDecimal((200 * boxHeight + imgHeight) \div (2 * imgHeight))

Check(name, passed, text, args, note) ==
    [name |-> name, passed |-> passed,
     message |-> [text |-> text, args |-> args], note |-> note]

\* The report for no face: lines 245-250.
ReportNoFace ==
    [isValid |-> FALSE,
     checks |-> << Check("faceDetected", FALSE,
                         "No face detected in the image", <<>>, NoNote) >>,
     faceData |-> NoFaceData]

\* The report for more than one face: lines 251-256.
ReportMultipleFaces(count) ==
    [isValid |-> FALSE,
     checks |-> << Check("faceDetected", FALSE,
                         "Multiple faces detected (${detections.length}). Only one person allowed.",
                         << ToDecimal(count) >>, NoNote) >>,
     faceData |-> NoFaceData]

\* Check 2 fails: Math.abs(angles.yaw) > maxYaw || Math.abs(angles.roll) > maxRoll.
notFrontal(landmarks) ==
    LET angles == calculateFaceAngles(landmarks)
    IN  \/ QuotGT(Abs(angles.yawNum), angles.yawDen, MaxYaw, 1)
        \/ RollExceeds(angles.rollDy, angles.rollDx)

\* headTooSmall with <= for <: a ratio of exactly minRatio fails.
headTooSmallInclusive(box, img) ==
    ~QuotGT(box.height, img.height, MinRatioNum, MinRatioDen)

\* Check 5 fails with headSizeRatio < minRatio.
headTooSmall(box, img) == QuotLT(box.height, img.height, MinRatioNum, MinRatioDen)

\* Check 5 fails with headSizeRatio > maxRatio.
headTooLarge(box, img) == QuotGT(box.height, img.height, MaxRatioNum, MaxRatioDen)

\* OneFaceIsValid without the assignment of line 340: a failed expression
\* check that leaves result.isValid alone.
OneFaceIsValidNoExpression(img, detection) ==
    /\ ~notFrontal(detection.landmarks)
    /\ checkEyesVisible(detection.landmarks)
    /\ checkFaceInFrame(detection.box, img.width, img.height)
    /\ ~(headTooSmall(detection.box, img) \/ headTooLarge(detection.box, img))

\* result.isValid for exactly one face: it starts true and each failing
\* check assigns false (lines 286, 302, 312, 324, 340).
OneFaceIsValid(img, detection) ==
    /\ ~notFrontal(detection.landmarks)
    /\ checkEyesVisible(detection.landmarks)
    /\ checkFaceInFrame(detection.box, img.width, img.height)
    /\ ~(headTooSmall(detection.box, img) \/ headTooLarge(detection.box, img))
    /\ checkNeutralExpression(detection.landmarks)

\* result.checks for exactly one face, in the order the properties are
\* added.  (The angles the faceFrontal message prints with toFixed(1) are
\* not part of the modelled message.)
OneFaceChecks(img, detection) ==
    LET box == detection.box
        landmarks == detection.landmarks
        eyesVisible == checkEyesVisible(landmarks)
        fullyInFrame == checkFaceInFrame(box, img.width, img.height)
        expressionNeutral == checkNeutralExpression(landmarks)
    IN  << Check("faceDetected", TRUE, "Single face detected", <<>>, NoNote),
           IF notFrontal(landmarks)
           THEN Check("faceFrontal", FALSE, "Face not frontal enough", <<>>, NoNote)
           ELSE Check("faceFrontal", TRUE, "Face is frontal", <<>>, NoNote),
           Check("eyesVisible", eyesVisible,
                 IF eyesVisible THEN "Both eyes clearly visible"
                 ELSE "Eyes not clearly visible or closed", <<>>, NoNote),
           Check("faceInFrame", fullyInFrame,
                 IF fullyInFrame THEN "Face fully contained in frame"
                 ELSE "Face is cut off or too close to edges", <<>>, NoNote),
           IF headTooSmall(box, img) \/ headTooLarge(box, img)
           THEN Check("headSize", FALSE,
                      IF headTooSmall(box, img)
                      THEN "Head size too small (${pct}% of frame)"
                      ELSE "Head size too large (${pct}% of frame)",
                      << HeadPercent(box.height, img.height) >>, NoNote)
           ELSE Check("headSize", TRUE, "Head size appropriate (${pct}% of frame)",
                      << HeadPercent(box.height, img.height) >>, NoNote),
           Check("expression", expressionNeutral,
                 IF expressionNeutral THEN "Expression appears neutral"
                 ELSE "Expression may not be neutral - mouth appears open",
                 <<>>, NoNote),
           Check("glassesCheck", TRUE, "Manual verification required", <<>>,
                 "LIMITATION: Automated glasses detection not implemented. If wearing glasses, please ensure no glare on lenses.")
        >>

\* The report for exactly one face: lines 257-352.
ReportOneFace(img, detection) ==
    [isValid |-> OneFaceIsValid(img, detection),
     checks |-> OneFaceChecks(img, detection),
     faceData |-> [x |-> detection.box.x, y |-> detection.box.y,
                   width |-> detection.box.width, height |-> detection.box.height,
                   landmarks |-> detection.landmarks]]

\* validatePhoto with `detections.length > 1` taken for a single face: the
\* first detection is validated.
validatePhotoFirstFace(img) ==
    IF Len(img.detections) = 0 THEN ReportNoFace
    ELSE ReportOneFace(img, At(img.detections, 0))

\* The checks up to and including the first that failed.
RECURSIVE UpToFirstFailure(_)
UpToFirstFailure(checks) ==
    IF checks = <<>> THEN <<>>
    ELSE IF ~Head(checks).passed THEN << Head(checks) >>
    ELSE << Head(checks) >> \o UpToFirstFailure(Tail(checks))

\* validatePhoto returning at the first failed check of a single face,
\* with no face data for a face that failed.
validatePhotoStopAtFailure(img) ==
    IF Len(img.detections) = 0 THEN ReportNoFace
    ELSE IF Len(img.detections) > 1 THEN ReportMultipleFaces(Len(img.detections))
    ELSE LET full == ReportOneFace(img, At(img.detections, 0))
         IN  [isValid |-> full.isValid,
              checks |-> UpToFirstFailure(full.checks),
              faceData |-> IF full.isValid THEN full.faceData ELSE NoFaceData]

\* validatePhoto, lines 237-354: the report built from the detections.
validatePhoto(img) ==
    IF Len(img.detections) = 0 THEN ReportNoFace
    ELSE IF Len(img.detections) > 1 THEN ReportMultipleFaces(Len(img.detections))
    ELSE ReportOneFace(img, At(img.detections, 0))

(***************************************************************************)
(* Detector results the model feeds the validator: synthetic faces in the  *)
(* 68-point layout of face-api.js (6 points per eye, 9 for the nose, 20    *)
(* for the mouth).                                                         *)
(***************************************************************************)
Pt(x, y) == [x |-> x, y |-> y]

\* An eye centred at (cx, cy), half as wide as a, with lids c above and below.
Eye(cx, cy, a, c) ==
    << Pt(cx - a, cy), Pt(cx - a \div 2, cy - c), Pt(cx + a \div 2, cy - c),
       Pt(cx + a, cy), Pt(cx + a \div 2, cy + c), Pt(cx - a \div 2, cy + c) >>

\* A mouth whose inner lips open hh above and below (cx, cy), corners hw aside.
Mouth(cx, cy, hw, hh) ==
    [i \in 1..20 |->
        CASE i = 13 -> Pt(cx - hw, cy)
          [] i = 15 -> Pt(cx, cy - hh)
          [] i = 17 -> Pt(cx + hw, cy)
          [] i = 19 -> Pt(cx, cy + hh)
          [] OTHER -> Pt(cx, cy)]

Nose(x, y) == [i \in 1..9 |-> Pt(x, y + 5 * (i - 1))]

\* One detection: the right eye centroid eyeDx (an even number) to the right
\* of the left one and eyeDy lower, the nose noseDx off their midpoint.
FaceApart(box, eyeDx, eyeDy, noseDx, lidL, lidR, lips) ==
    LET ex == box.x + box.width \div 2
        ey == box.y + box.height \div 3
    IN  [box |-> box,
         landmarks |->
            [leftEye |-> Eye(ex - eyeDx \div 2, ey, 20, lidL),
             rightEye |-> Eye(ex + eyeDx \div 2, ey + eyeDy, 20, lidR),
             nose |-> Nose(ex + noseDx, ey + 10),
             mouth |-> Mouth(ex, ey + 120, 30, lips)]]

\* One detection with the eye centroids 100 apart horizontally.
Face(box, eyeDy, noseDx, lidL, lidR, lips) ==
    FaceApart(box, 100, eyeDy, noseDx, lidL, lidR, lips)

Box(x, y, w, h) == [x |-> x, y |-> y, width |-> w, height |-> h]

\* A face that passes every check in a 1000 x 1000 image: frontal, EAR 0.3
\* for both eyes, MAR 0.1, 600 high and clear of the margin.
GoodFace == Face(Box(300, 150, 300, 600), 0, 0, 6, 6, 3)

Img(w, h, detections) == [width |-> w, height |-> h, detections |-> detections]

\* Images with one face, over every combination of the parameters below.
OneFaceInputs ==
    { Img(1000, 1000, << Face(box, eyeDy, noseDx, lidL, lidR, lips) >>) :
        box \in { Box(300, 150, 300, 600), Box(300, 200, 300, 500),
                  Box(300, 100, 300, 750), Box(300, 200, 300, 490),
                  Box(300, 100, 300, 760), Box(10, 150, 300, 600),
                  Box(300, 200, 300, 400) },
        eyeDy \in {0, 20, 30},
        noseDx \in {0, 33, 34},
        lidL \in {6, 3},
        lidR \in {6, 0},
        lips \in {3, 12} }

\* Images with no face or with 2..MaxFaces faces.
OtherCountInputs ==
    { Img(1000, 1000, [i \in 1..n |-> GoodFace]) : n \in (0..MaxFaces) \ {1} }

\* Images of several heights with one otherwise good face whose box height
\* is at, just inside and just outside each bound of the head-size ratio.
HeadSizeInputs ==
    UNION { { Img(1000, H, << Face(Box(300, 25, 300, h), 0, 0, 6, 6, 3) >>) :
                h \in { (H \div 2) - 1, H \div 2, (H \div 2) + 1,
                        (3 * H) \div 4 - 1, (3 * H) \div 4, (3 * H) \div 4 + 1,
                        (49 * H) \div 100, (76 * H) \div 100 } } :
            H \in {800, 1000, 1200} }

\* Images with one otherwise good face whose eye line and nose are at and
\* around the 15 degree limits, for eyes 30 apart either way round and for
\* coinciding eye centroids.  (30 apart: a nose offset of 10 is a yaw of
\* exactly 15 degrees; a drop of 8 is a roll of 14.9 degrees, of 9 16.7.)
FrontalInputs ==
    { Img(1000, 1000, << FaceApart(Box(300, 150, 300, 600), eyeDx, eyeDy, noseDx,
                                   6, 6, 3) >>) :
        eyeDx \in {30, 0, -30},
        eyeDy \in {0, 8, 9, -8, -9, 30},
        noseDx \in {0, 9, 10, 11, -10, -11} }

\* Images with one otherwise good face whose box is one pixel inside, on
\* and one pixel over the margin line at each side.
FrameInputs ==
    { Img(1000, 1000, << Face(Box(x, y, 300, 600), 0, 0, 6, 6, 3) >>) :
        x \in {19, 20, 21, 679, 680, 681},
        y \in {19, 20, 21, 379, 380, 381} }

\* One detection in the box of GoodFace whose eye centroids are eyeDx apart,
\* whose eyes are 2 * halfL and 2 * halfR wide and whose mouth corners are
\* 2 * halfMouth apart.
FaceShaped(eyeDx, halfL, halfR, lidL, lidR, halfMouth, lips) ==
    LET box == Box(300, 150, 300, 600)
        ex == box.x + box.width \div 2
        ey == box.y + box.height \div 3
    IN  [box |-> box,
         landmarks |->
            [leftEye |-> Eye(ex - eyeDx \div 2, ey, halfL, lidL),
             rightEye |-> Eye(ex + eyeDx \div 2, ey, halfR, lidR),
             nose |-> Nose(ex, ey + 10),
             mouth |-> Mouth(ex, ey + 120, halfMouth, lips)]]

\* Images with one well placed face in which an eye or the mouth has no
\* width, the lids or the lips coincide, or the eye centroids coincide.
DegenerateInputs ==
    { Img(1000, 1000, << FaceShaped(eyeDx, halfL, halfR, lidL, lidR,
                                    halfMouth, lips) >>) :
        eyeDx \in {100, 0},
        halfL \in {20, 0},
        halfR \in {20, 0},
        lidL \in {6, 0},
        lidR \in {6, 0},
        halfMouth \in {30, 0},
        lips \in {3, 0} }

ValidatorInputs ==
    OneFaceInputs \cup OtherCountInputs \cup HeadSizeInputs \cup FrontalInputs
        \cup FrameInputs \cup DegenerateInputs

NoInput == [null |-> TRUE]
NoOutput == [null |-> TRUE]

(***************************************************************************)
(* The uploads the model feeds the controller.  A data URL is named by its *)
(* content: what decoding it gives, and what the detector finds in it.     *)
(***************************************************************************)
DataUrls == {"corrupt", "empty", "distant", "portrait"}

Decodable(dataUrl) == dataUrl # "corrupt"

ImageOf(dataUrl) ==
    CASE dataUrl = "empty" -> Img(1000, 1000, <<>>)
      [] dataUrl = "distant" ->
            Img(1000, 1000, << Face(Box(300, 200, 300, 300), 0, 0, 6, 6, 3) >>)
      [] dataUrl = "portrait" -> Img(1000, 1000, << GoodFace >>)

\* 10 * 1024 * 1024
MaxFileSize == 10485760

File(type, size, data) == [type |-> type, size |-> size, data |-> data]

\* One accepted file per data URL (the portrait exactly at the size limit),
\* one file over the limit and one of a type that is refused.
Files ==
    { File("image/jpeg", 1000, d) : d \in DataUrls \ {"portrait"} }
    \cup { File("image/png", MaxFileSize, "portrait"),
           File("image/jpeg", MaxFileSize + 1, "portrait"),
           File("image/gif", 1000, "portrait") }

(***************************************************************************)
(* utils/processing.js: processPhoto.  Its result is named by what it was  *)
(* made from: the image data and the face box it was cropped around.       *)
(***************************************************************************)
processPhoto(imgData, faceData) ==
    [source |-> imgData,
     box |-> Box(faceData.x, faceData.y, faceData.width, faceData.height)]

\* The awaits of processPhoto, in order, and for each the stages that can
\* throw at it or in the synchronous code that runs when it resolves.
ProcAwaits == {"loadImage", "removeBackground", "loadImageFromBlob"}

StagesAt(pc) ==
    CASE pc = "loadImage" -> {"image load", "crop"}
      [] pc = "removeBackground" -> {"background removal"}
      [] pc = "loadImageFromBlob" -> {"segmented image load", "recompose",
                                      "optimization", "encode"}
      [] OTHER -> {}

(***************************************************************************)
(* App.jsx: the workflow controller.                                       *)
(***************************************************************************)
Slots == 1..MaxRuns

IdleRun == [pc |-> "idle", file |-> NoFile, result |-> NoReport]

\* The runs whose FileReader, validatePhoto or processPhoto is pending.
Pending == { r \in Slots : runs[r].pc # "idle" }

FreeSlot == CHOOSE r \in Slots \ Pending : \A q \in Slots \ Pending : r <= q

\* file.type.match('image/(jpeg|jpg|png)'), for the MIME types of Files.
TypeMatches(type) == type \in {"image/jpeg", "image/jpg", "image/png"}

NoDownload == "none"

\* LayoutSelection is rendered while step is 'layout' (App.jsx line 165).  A
\* step that leaves 'layout' unmounts the instance: the promises it started
\* stay pending but their setLoading no longer reaches a mounted component.
\* A step that enters 'layout' mounts a new instance, useState(false).
LayoutSelectionAfter(newStep) ==
    /\ layoutLoading' = IF step = "layout" /\ newStep = "layout"
                         THEN layoutLoading ELSE FALSE
    /\ sheets' = IF step = "layout" /\ newStep # "layout"
                  THEN [i \in DOMAIN sheets |-> [sheets[i] EXCEPT !.mounted = FALSE]]
                  ELSE sheets
    /\ UNCHANGED downloaded

InitApp ==
    /\ step = "upload"
    /\ imageFile = NoFile
    /\ imageData = Null
    /\ validationResult = NoReport
    /\ processedImage = NoPhoto
    /\ loading = FALSE
    /\ error = NoError
    /\ modelsLoaded = FALSE
    /\ runs = [r \in Slots |-> IdleRun]
    /\ layoutLoading = FALSE
    /\ sheets = <<>>
    /\ downloaded = NoDownload

Init ==
    /\ InitApp
    /\ vIn = NoInput
    /\ vOut = NoReport
    /\ gIn = NoInput
    /\ gOut = NoOutput

\* <PhotoUpload onUpload={handleFileUpload}/> is rendered on the upload step.
UploadEnabled == step = "upload"

\* handleFileUpload(file), up to reader.readAsDataURL(file).
handleFileUpload(file) ==
    /\ UploadEnabled
    /\ IF ~TypeMatches(file.type)
       THEN /\ error' = [text |-> "Please upload a JPG or PNG image"]
            /\ UNCHANGED <<imageFile, runs>>
       ELSE IF file.size > MaxFileSize
       THEN /\ error' = [text |-> "File size must be less than 10MB"]
            /\ UNCHANGED <<imageFile, runs>>
       ELSE /\ Pending # Slots
            /\ error' = NoError
            /\ imageFile' = file
            /\ runs' = [runs EXCEPT ![FreeSlot] =
                            [pc |-> "reading", file |-> file, result |-> NoReport]]
    /\ UNCHANGED <<step, imageData, validationResult, processedImage, loading,
                   modelsLoaded, vIn, vOut, gIn, gOut,
                   layoutVars>>

\* The catch and finally blocks of handleValidation, and the return to
\* reader.onload, which has nothing left to do.
ValidationCaught(r, message) ==
    /\ error' = [text |-> "Validation failed: ${err.message}", message |-> message]
    /\ step' = "validating"
    /\ loading' = FALSE
    /\ runs' = [runs EXCEPT ![r] = IdleRun]
    /\ LayoutSelectionAfter("validating")

\* readerOnLoad without loadModels' `if (modelsLoaded) return`: every
\* validatePhoto call starts the model loads.
readerOnLoadReloads(r) ==
    /\ runs[r].pc = "reading"
    /\ imageData' = runs[r].file.data
    /\ step' = "validating"
    /\ LayoutSelectionAfter("validating")
    /\ loading' = TRUE
    /\ validationResult' = NoReport
    /\ runs' = [runs EXCEPT ![r].pc = "loadModels"]
    /\ UNCHANGED <<imageFile, processedImage, error, modelsLoaded, vIn, vOut, gIn, gOut>>

\* reader.onload: setImageData, setStep, then handleValidation up to the
\* first await that suspends it: loadModels' Promise.all when the models are
\* not loaded, loadImage otherwise.
readerOnLoad(r) ==
    /\ runs[r].pc = "reading"
    /\ imageData' = runs[r].file.data
    /\ step' = "validating"
    /\ LayoutSelectionAfter("validating")
    /\ loading' = TRUE
    /\ validationResult' = NoReport
    /\ runs' = [runs EXCEPT ![r].pc =
                    IF modelsLoaded THEN "validate:loadImage" ELSE "loadModels"]
    /\ UNCHANGED <<imageFile, processedImage, error, modelsLoaded, vIn, vOut, gIn, gOut>>

\* The FileReader fails: no onerror handler is set, the run ends silently.
readerOnError(r) ==
    /\ runs[r].pc = "reading"
    /\ runs' = [runs EXCEPT ![r] = IdleRun]
    /\ UNCHANGED <<step, imageFile, imageData, validationResult, processedImage,
                   loading, error, modelsLoaded, vIn, vOut, gIn, gOut,
                   layoutVars>>

\* loadModels: Promise.all of the three loadFromUri calls resolves.
loadModelsResolved(r) ==
    /\ runs[r].pc = "loadModels"
    /\ modelsLoaded' = TRUE
    /\ runs' = [runs EXCEPT ![r].pc = "validate:loadImage"]
    /\ UNCHANGED <<step, imageFile, imageData, validationResult, processedImage,
                   loading, error, vIn, vOut, gIn, gOut,
                   layoutVars>>

\* loadModelsRejected with `modelsLoaded = true` moved in front of the
\* Promise.all: the flag is set although the load failed.
loadModelsRejectedCached(r) ==
    /\ runs[r].pc = "loadModels"
    /\ ValidationCaught(r, "Failed to load face detection models. Ensure models are in /public/models directory.")
    /\ modelsLoaded' = TRUE
    /\ UNCHANGED <<imageFile, imageData, validationResult, processedImage,
                   vIn, vOut, gIn, gOut>>

\* loadModels: one of the loadFromUri calls rejects; loadModels throws.
loadModelsRejected(r) ==
    /\ runs[r].pc = "loadModels"
    /\ ValidationCaught(r, "Failed to load face detection models. Ensure models are in /public/models directory.")
    /\ UNCHANGED <<imageFile, imageData, validationResult, processedImage,
                   modelsLoaded, vIn, vOut, gIn, gOut>>

\* validatePhoto: loadImage(imageData) resolves; detection starts.
validateImageLoaded(r) ==
    /\ runs[r].pc = "validate:loadImage"
    /\ Decodable(runs[r].file.data)
    /\ runs' = [runs EXCEPT ![r].pc = "detect"]
    /\ UNCHANGED <<step, imageFile, imageData, validationResult, processedImage,
                   loading, error, modelsLoaded, vIn, vOut, gIn, gOut,
                   layoutVars>>

\* validatePhoto: loadImage rejects with img's error event, which has no
\* message.
validateImageFailed(r) ==
    /\ runs[r].pc = "validate:loadImage"
    /\ ~Decodable(runs[r].file.data)
    /\ ValidationCaught(r, "undefined")
    /\ UNCHANGED <<imageFile, imageData, validationResult, processedImage,
                   modelsLoaded, vIn, vOut, gIn, gOut>>

\* The detector throws.
detectRejected(r) ==
    /\ runs[r].pc = "detect"
    /\ ValidationCaught(r, "detector error")
    /\ UNCHANGED <<imageFile, imageData, validationResult, processedImage,
                   modelsLoaded, vIn, vOut, gIn, gOut>>

\* ValidationReturned without the `if (result.isValid)` test: processing
\* starts for every report.
ValidationReturnedUnchecked(r, result) ==
    /\ validationResult' = result
    /\ step' = "processing"
    /\ loading' = TRUE
    /\ runs' = [runs EXCEPT ![r].pc = "loadImage", ![r].result = result]
    /\ LayoutSelectionAfter("processing")

\* handleValidation after validatePhoto returned `result`: lines 78-87, and
\* for a valid report handleProcessing up to processPhoto's first await.
ValidationReturned(r, result) ==
    /\ validationResult' = result
    /\ IF result.isValid
       THEN /\ step' = "processing"
            /\ loading' = TRUE
            /\ runs' = [runs EXCEPT ![r].pc = "loadImage", ![r].result = result]
       ELSE /\ step' = "validating"
            /\ loading' = FALSE
            /\ runs' = [runs EXCEPT ![r] = IdleRun]
    /\ LayoutSelectionAfter(IF result.isValid THEN "processing" ELSE "validating")

\* The detector resolves; validatePhoto builds the report and returns it.
detectResolved(r) ==
    /\ runs[r].pc = "detect"
    /\ ValidationReturned(r, validatePhoto(ImageOf(runs[r].file.data)))
    /\ UNCHANGED <<imageFile, imageData, processedImage, error, modelsLoaded,
                   vIn, vOut, gIn, gOut>>

\* processPhoto: an await other than the last resolves and the synchronous
\* code up to the next await runs without throwing.
processStep(r) ==
    /\ runs[r].pc \in {"loadImage", "removeBackground"}
    /\ runs' = [runs EXCEPT ![r].pc =
                    IF runs[r].pc = "loadImage" THEN "removeBackground"
                    ELSE "loadImageFromBlob"]
    /\ UNCHANGED <<step, imageFile, imageData, validationResult, processedImage,
                   loading, error, modelsLoaded, vIn, vOut, gIn, gOut,
                   layoutVars>>

\* handleProcessing after processPhoto returned `processed`: lines 106-107
\* and 111, then the finally of handleValidation.
ProcessingReturned(r, processed) ==
    /\ processedImage' = processed
    /\ step' = "layout"
    /\ loading' = FALSE
    /\ runs' = [runs EXCEPT ![r] = IdleRun]
    /\ LayoutSelectionAfter("layout")

\* processPhoto: the last await resolves; recompose, optimization and encode
\* run and processPhoto returns.
processResolved(r) ==
    /\ runs[r].pc = "loadImageFromBlob"
    /\ ProcessingReturned(r, processPhoto(runs[r].file.data, runs[r].result.faceData))
    /\ UNCHANGED <<imageFile, imageData, validationResult, error, modelsLoaded,
                   vIn, vOut, gIn, gOut>>

\* ProcessingCaught with setStep('layout') moved out of the try block: the
\* step advances although processPhoto threw.
ProcessingCaughtAdvances(r, message) ==
    /\ error' = [text |-> "Processing failed: ${err.message}", message |-> message]
    /\ loading' = FALSE
    /\ runs' = [runs EXCEPT ![r] = IdleRun]
    /\ step' = "layout"
    /\ LayoutSelectionAfter("layout")

\* The catch and finally blocks of handleProcessing, then the finally of
\* handleValidation.
ProcessingCaught(r, message) ==
    /\ error' = [text |-> "Processing failed: ${err.message}", message |-> message]
    /\ loading' = FALSE
    /\ runs' = [runs EXCEPT ![r] = IdleRun]
    /\ UNCHANGED <<step, layoutVars>>

\* processPhoto: a stage throws; processPhoto rethrows
\* Error(`Processing failed: ${error.message}`).
processRejected(r, stage) ==
    /\ stage \in StagesAt(runs[r].pc)
    /\ ProcessingCaught(r, stage)
    /\ UNCHANGED <<imageFile, imageData, validationResult, processedImage,
                   modelsLoaded, vIn, vOut, gIn, gOut>>

\* onReset is offered by PhotoValidation's "Upload New Photo" button, shown
\* for a failed report when not loading, and by LayoutSelection.
ResetEnabled ==
    \/ /\ step = "validating"
       /\ ~loading
       /\ validationResult # NoReport
       /\ ~validationResult.isValid
    \/ step = "layout"

\* handleReset.
handleReset ==
    /\ ResetEnabled
    /\ step' = "upload"
    /\ LayoutSelectionAfter("upload")
    /\ imageFile' = NoFile
    /\ imageData' = Null
    /\ validationResult' = NoReport
    /\ processedImage' = NoPhoto
    /\ error' = NoError
    /\ UNCHANGED <<loading, modelsLoaded, runs, vIn, vOut, gIn, gOut>>

\* ErrorDisplay's onDismiss: setError(null).
dismissError ==
    /\ error # NoError
    /\ error' = NoError
    /\ UNCHANGED <<step, imageFile, imageData, validationResult, processedImage,
                   loading, modelsLoaded, runs, vIn, vOut, gIn, gOut,
                   layoutVars>>

Next ==
    \/ \E file \in Files : handleFileUpload(file)
    \/ \E r \in Slots : readerOnLoad(r)
    \/ \E r \in Slots : readerOnError(r)
    \/ \E r \in Slots : loadModelsResolved(r)
    \/ \E r \in Slots : loadModelsRejected(r)
    \/ \E r \in Slots : validateImageLoaded(r)
    \/ \E r \in Slots : validateImageFailed(r)
    \/ \E r \in Slots : detectResolved(r)
    \/ \E r \in Slots : detectRejected(r)
    \/ \E r \in Slots : processStep(r)
    \/ \E r \in Slots : processResolved(r)
    \/ \E r \in Slots, stage \in {"image load", "crop", "background removal",
                                  "segmented image load", "recompose",
                                  "optimization", "encode"} :
            processRejected(r, stage)
    \/ handleReset
    \/ dismissError

Spec == Init /\ [][Next]_vars

(***************************************************************************)
(* components/LayoutSelection.jsx with utils/layoutGeneration.js: the      *)
(* download handlers and the promises of generateA4Layout and              *)
(* generate10x15Layout.  A pending generation is [kind, mounted, thrown]:  *)
(* which sheet, whether the instance that started it is still mounted, and *)
(* whether its img.onload callback has already run and thrown.             *)
(***************************************************************************)
appVars == <<step, imageFile, imageData, validationResult, processedImage,
             loading, error, modelsLoaded, runs>>

harnessVars == <<vIn, vOut, gIn, gOut>>

SheetKinds == {"A4", "10x15"}

SheetFilename(kind) ==
    IF kind = "A4" THEN "passport_photos_a4.jpg" ELSE "passport_photos_10x15cm.jpg"

\* The download buttons are rendered with LayoutSelection, disabled={loading}.
DownloadEnabled == step = "layout" /\ ~layoutLoading

\* handleSingleDownload.
handleSingleDownload ==
    /\ DownloadEnabled
    /\ downloaded' = "passport_photo_3x4cm.jpg"
    /\ UNCHANGED <<appVars, harnessVars, layoutLoading, sheets>>

\* handleA4Download / handle10x15Download up to the await: setLoading(true),
\* then the promise executor, which ends at img.src = photoDataUrl.
StartGeneration(kind) ==
    /\ DownloadEnabled
    /\ Len(sheets) < MaxSheets
    /\ layoutLoading' = TRUE
    /\ sheets' = Append(sheets, [kind |-> kind, mounted |-> TRUE, thrown |-> FALSE])
    /\ UNCHANGED <<appVars, harnessVars, downloaded>>

handleA4Download == StartGeneration("A4")

handle10x15Download == StartGeneration("10x15")

RemoveAt(seq, i) == SubSeq(seq, 1, i - 1) \o SubSeq(seq, i + 1, Len(seq))

\* The promise of generation i settles: the finally block's setLoading(false)
\* reaches the component only while the instance is mounted.
Settled(i) ==
    /\ sheets' = RemoveAt(sheets, i)
    /\ layoutLoading' = IF sheets[i].mounted THEN FALSE ELSE layoutLoading

\* img.onload runs to resolve(canvas.toDataURL(...)); the handler resumes:
\* downloadImage(layoutDataUrl, filename), finally setLoading(false).
layoutImageLoaded(i) ==
    /\ i \in DOMAIN sheets
    /\ ~sheets[i].thrown
    /\ downloaded' = SheetFilename(sheets[i].kind)
    /\ Settled(i)
    /\ UNCHANGED <<appVars, harnessVars>>

\* img.onerror = reject; the handler resumes in catch: alert, finally
\* setLoading(false).
layoutImageFailed(i) ==
    /\ i \in DOMAIN sheets
    /\ ~sheets[i].thrown
    /\ Settled(i)
    /\ UNCHANGED <<appVars, harnessVars, downloaded>>

\* img.onload throws while drawing or encoding.  The callback runs after the
\* executor's try block has been left, so nothing calls resolve or reject:
\* the promise stays pending and the handler never resumes.
layoutImageLoadedThrows(i) ==
    /\ i \in DOMAIN sheets
    /\ ~sheets[i].thrown
    /\ sheets' = [sheets EXCEPT ![i].thrown = TRUE]
    /\ UNCHANGED <<appVars, harnessVars, layoutLoading, downloaded>>

NextLayout ==
    \/ Next
    \/ handleSingleDownload
    \/ handleA4Download
    \/ handle10x15Download
    \/ \E i \in 1..MaxSheets : layoutImageLoaded(i)
    \/ \E i \in 1..MaxSheets : layoutImageFailed(i)
    \/ \E i \in 1..MaxSheets : layoutImageLoadedThrows(i)

SpecLayout == Init /\ [][NextLayout]_vars

(***************************************************************************)
(* The validator on its own: validatePhoto applied to each detector result *)
(* of ValidatorInputs.                                                     *)
(***************************************************************************)
InitValidator ==
    /\ InitApp
    /\ vIn \in ValidatorInputs
    /\ vOut = NoReport
    /\ gIn = NoInput
    /\ gOut = NoOutput

Validate ==
    /\ vOut = NoReport
    /\ vOut' = validatePhoto(vIn)
    /\ UNCHANGED <<vIn, step, imageFile, imageData, validationResult,
                   processedImage, loading, error, modelsLoaded, runs,
                   gIn, gOut,
                   layoutVars>>

NextValidator == Validate

SpecValidator == InitValidator /\ [][NextValidator]_vars

(***************************************************************************)
(* utils/processing.js: the optimization stage.  An ImageData is           *)
(* [width, height, data], data the RGBA bytes in row-major order; data[i]  *)
(* of the code is At(data, i).                                             *)
(***************************************************************************)
\* new ImageData(width, height): every byte 0 (transparent black).
ImageData(width, height) ==
    [width |-> width, height |-> height,
     data |-> [j \in 1..(width * height * 4) |-> 0]]

\* The byte a Uint8ClampedArray stores for Math.max(0, Math.min(255, n / d)),
\* d # 0: the number clamped to 0..255 and rounded to the nearest integer,
\* ties to even.
ToUint8Clamped(n, d) ==
    LET num == IF d < 0 THEN 0 - n ELSE n
        den == Abs(d)
        q == num \div den
        r == num % den
    IN  IF num <= 0 THEN 0
        ELSE IF num >= 255 * den THEN 255
        ELSE IF 2 * r < den THEN q
        ELSE IF 2 * r > den THEN q + 1
        ELSE IF q % 2 = 0 THEN q ELSE q + 1

\* sharpenAmount = 0.2 as the fraction SharpenNum / SharpenDen.
SharpenNum == 1
SharpenDen == 5

\* applySharpeningFilter.  The output is a new ImageData; the loops write
\* the pixels with 1 <= x < width - 1 and 1 <= y < height - 1 only, the
\* colour channels with center + (center - average) * sharpenAmount =
\* (4 D center + N (4 center - sum)) / (4 D) for N / D = sharpenAmount,
\* and the alpha channel with the input's.
applySharpeningFilter(image) ==
    LET data == image.data
        width == image.width
        height == image.height
        output == ImageData(width, height)
        sharpened(x, y, c) ==
            LET center == At(data, (y * width + x) * 4 + c)
                above == At(data, ((y - 1) * width + x) * 4 + c)
                below == At(data, ((y + 1) * width + x) * 4 + c)
                left == At(data, (y * width + (x - 1)) * 4 + c)
                right == At(data, (y * width + (x + 1)) * 4 + c)
            IN  ToUint8Clamped(4 * SharpenDen * center
                                 + SharpenNum * (4 * center
                                                 - (above + below + left + right)),
                               4 * SharpenDen)
        outData ==
            [j \in 1..Len(data) |->
                LET i == j - 1
                    c == i % 4
                    x == (i \div 4) % width
                    y == (i \div 4) \div width
                IN  IF x >= 1 /\ x < width - 1 /\ y >= 1 /\ y < height - 1
                    THEN IF c < 3 THEN sharpened(x, y, c) ELSE At(data, i)
                    ELSE At(output.data, i)]
    IN  [width |-> width, height |-> height, data |-> outData]

\* applyContrastAdjustment for contrast = cNum / cDen.  factor is
\* 259 (255 cNum + 255 cDen) / (255 (259 cDen - 255 cNum)), kept as the
\* fraction factorNum / factorDen (factorDen # 0 for the contrast the code
\* passes), and a colour byte becomes factor * (value - 128) + 128.
applyContrastAdjustment(image, cNum, cDen) ==
    LET data == image.data
        factorNum == 259 * (cNum * 255 + 255 * cDen)
        factorDen == 255 * (259 * cDen - cNum * 255)
    IN  [image EXCEPT !.data =
            [j \in 1..Len(data) |->
                IF (j - 1) % 4 < 3
                THEN ToUint8Clamped(factorNum * (data[j] - 128) + 128 * factorDen,
                                    factorDen)
                ELSE data[j]]]

\* The contrast applyOptimizations passes, 1.1, as ContrastNum / ContrastDen.
ContrastNum == 11
ContrastDen == 10

\* applyOptimizations: the ImageData put back on the canvas.
applyOptimizations(image) ==
    applyContrastAdjustment(applySharpeningFilter(image),
                            ContrastNum, ContrastDen)

(***************************************************************************)
(* The canvases the model feeds the optimization stage: a white canvas of  *)
(* OptWidth x OptHeight pixels, as applyWhiteBackgroundAndResize fills it, *)
(* with up to MaxSubjectPixels pixels of the drawn subject.                *)
(***************************************************************************)
OptWidth == 4
OptHeight == 3
MaxSubjectPixels == 2

White == <<255, 255, 255, 255>>

SubjectColours == { <<200, 150, 100, 255>>, <<10, 20, 30, 255>>,
                    <<128, 131, 124, 255>> }

\* The canvas whose pixel p (0-based, row-major) has colour paint[p] for p in
\* the domain of paint and is white elsewhere.
Canvas(paint) ==
    [width |-> OptWidth, height |-> OptHeight,
     data |-> [j \in 1..(OptWidth * OptHeight * 4) |->
                 LET p == (j - 1) \div 4
                     c == (j - 1) % 4
                 IN  IF p \in DOMAIN paint THEN paint[p][c + 1] ELSE White[c + 1]]]

\* The ways to paint at most k pixels of the canvas: functions from the
\* painted pixels to their colours.
RECURSIVE Paints(_)
Paints(k) ==
    IF k = 0 THEN { [p \in {} |-> White] }
    ELSE Paints(k - 1) \cup
         { paint @@ (p :> colour) :
             paint \in { f \in Paints(k - 1) : Cardinality(DOMAIN f) = k - 1 },
             p \in 0..(OptWidth * OptHeight - 1),
             colour \in SubjectColours }

OptimizeInputs ==
    { [op |-> "applyOptimizations", imageData |-> Canvas(paint)] :
        paint \in Paints(MaxSubjectPixels) }

\* The pixel (x, y) of an ImageData as <<r, g, b, a>>.
Pixel(image, x, y) ==
    [c \in 1..4 |-> At(image.data, (y * image.width + x) * 4 + c - 1)]

InitOptimize ==
    /\ InitApp
    /\ vIn = NoInput
    /\ vOut = NoReport
    /\ gIn \in OptimizeInputs
    /\ gOut = NoOutput

\* const sharpened = applySharpeningFilter(imageData)
Sharpen ==
    /\ gOut = NoOutput
    /\ gOut' = [stage |-> "sharpened",
                imageData |-> applySharpeningFilter(gIn.imageData)]
    /\ UNCHANGED <<step, imageFile, imageData, validationResult, processedImage,
                   loading, error, modelsLoaded, runs, vIn, vOut, gIn,
                   layoutVars>>

\* const contrasted = applyContrastAdjustment(sharpened, 1.1)
Contrast ==
    /\ gOut # NoOutput
    /\ gOut.stage = "sharpened"
    /\ gOut' = [stage |-> "contrasted",
                imageData |-> applyContrastAdjustment(gOut.imageData,
                                                      ContrastNum, ContrastDen)]
    /\ UNCHANGED <<step, imageFile, imageData, validationResult, processedImage,
                   loading, error, modelsLoaded, runs, vIn, vOut, gIn,
                   layoutVars>>

NextOptimize == Sharpen \/ Contrast

SpecOptimize == InitOptimize /\ [][NextOptimize]_vars

(***************************************************************************)
(* Pixel geometry of utils/processing.js and utils/layoutGeneration.js.    *)
(* Numbers that need not be whole are exact fractions [num, den], den > 0. *)
(***************************************************************************)
\* The greatest common divisor of two naturals, not both 0.
RECURSIVE Gcd(_, _)
Gcd(a, b) == IF b = 0 THEN a ELSE Gcd(b, a % b)

\* n / d in lowest terms.
Frac(n, d) == [num |-> n \div Gcd(Abs(n), d), den |-> d \div Gcd(Abs(n), d)]

FracLE(a, b) == a.num * b.den <= b.num * a.den

FracLT(a, b) == a.num * b.den < b.num * a.den

FracEq(a, b) == a.num * b.den = b.num * a.den

FracAdd(a, b) == Frac(a.num * b.den + b.num * a.den, a.den * b.den)

\* Math.floor(n / d) for d > 0.
MathFloor(n, d) == n \div d

\* Math.round(n / d) for d > 0: the nearest integer, halves upwards.
MathRound(n, d) == (2 * n + d) \div (2 * d)

\* const DPI = 300 (processing.js and layoutGeneration.js).
DPI == 300

\* CM_TO_INCH = 0.393701 as CmToInchNum / CmToInchDen.
CmToInchNum == 393701
CmToInchDen == 1000000

\* MM_TO_INCH = 0.0393701 as MmToInchNum / MmToInchDen.
MmToInchNum == 393701
MmToInchDen == 10000000

\* Math.round(cm * CM_TO_INCH * DPI).  The fraction is reduced by 100, which
\* divides DPI and both denominators, to keep the products within TLC's
\* integers.
CmToPx(cm) == MathRound(cm * CmToInchNum * (DPI \div 100), CmToInchDen \div 100)

\* Math.round(mm * MM_TO_INCH * DPI), reduced likewise.
MmToPx(mm) == MathRound(mm * MmToInchNum * (DPI \div 100), MmToInchDen \div 100)

FracSub(a, b) == Frac(a.num * b.den - b.num * a.den, a.den * b.den)

\* Math.max(a, b).
FracMax(a, b) == IF FracLE(a, b) THEN b ELSE a

\* cropToPassportSize without Math.max(0, .): the source rectangle keeps its
\* computed origin.
cropToPassportSizeUnclamped(img, faceData) ==
    LET frameHeight == Frac(faceData.height * 16, 10)
        frameWidth == Frac(frameHeight.num * 3, frameHeight.den * 4)
        faceCenterX == Frac(2 * faceData.x + faceData.width, 2)
        faceCenterY == Frac(2 * faceData.y + faceData.height, 2)
    IN  [canvas |-> [width |-> MathRound(frameWidth.num, frameWidth.den),
                     height |-> MathRound(frameHeight.num, frameHeight.den)],
         source |-> [x |-> FracSub(faceCenterX, Frac(frameWidth.num, 2 * frameWidth.den)),
                     y |-> FracSub(faceCenterY,
                                   Frac(frameHeight.num * 4, frameHeight.den * 10)),
                     width |-> frameWidth, height |-> frameHeight]]

\* cropToPassportSize(img, faceData): the canvas it returns and the source
\* rectangle (sx, sy, sWidth, sHeight) it hands to drawImage.  1.6 is 16/10,
\* targetRatio 3/4 and 0.4 is 4/10.
cropToPassportSize(img, faceData) ==
    LET faceHeight == faceData.height
        frameHeight == Frac(faceHeight * 16, 10)
        frameWidth == Frac(frameHeight.num * 3, frameHeight.den * 4)
        faceCenterX == Frac(2 * faceData.x + faceData.width, 2)
        faceCenterY == Frac(2 * faceData.y + faceData.height, 2)
        cropX == FracSub(faceCenterX, Frac(frameWidth.num, 2 * frameWidth.den))
        cropY == FracSub(faceCenterY, Frac(frameHeight.num * 4, frameHeight.den * 10))
    IN  [canvas |-> [width |-> MathRound(frameWidth.num, frameWidth.den),
                     height |-> MathRound(frameHeight.num, frameHeight.den)],
         source |-> [x |-> FracMax(Frac(0, 1), cropX),
                     y |-> FracMax(Frac(0, 1), cropY),
                     width |-> frameWidth, height |-> frameHeight]]

\* applyWhiteBackgroundAndResize with Math.max for Math.min: the image
\* scaled to cover the canvas.
applyWhiteBackgroundAndCover(img) ==
    LET canvas == [width |-> CmToPx(3), height |-> CmToPx(4)]
        scale == IF canvas.width * img.height >= canvas.height * img.width
                 THEN Frac(canvas.width, img.width)
                 ELSE Frac(canvas.height, img.height)
        scaledWidth == Frac(img.width * scale.num, scale.den)
        scaledHeight == Frac(img.height * scale.num, scale.den)
    IN  [canvas |-> canvas, scale |-> scale,
         drawn |-> [x |-> Frac(canvas.width * scaledWidth.den - scaledWidth.num,
                               2 * scaledWidth.den),
                    y |-> Frac(canvas.height * scaledHeight.den - scaledHeight.num,
                               2 * scaledHeight.den),
                    width |-> scaledWidth, height |-> scaledHeight]]

\* applyWhiteBackgroundAndResize(img) for an image of img.width x img.height
\* pixels, both positive: the canvas and the rectangle drawImage is given.
applyWhiteBackgroundAndResize(img) ==
    LET WIDTH_CM == 3
        HEIGHT_CM == 4
        canvas == [width |-> CmToPx(WIDTH_CM), height |-> CmToPx(HEIGHT_CM)]
        scale == IF canvas.width * img.height <= canvas.height * img.width
                 THEN Frac(canvas.width, img.width)
                 ELSE Frac(canvas.height, img.height)
        scaledWidth == Frac(img.width * scale.num, scale.den)
        scaledHeight == Frac(img.height * scale.num, scale.den)
        x == Frac(canvas.width * scaledWidth.den - scaledWidth.num,
                  2 * scaledWidth.den)
        y == Frac(canvas.height * scaledHeight.den - scaledHeight.num,
                  2 * scaledHeight.den)
    IN  [canvas |-> canvas, scale |-> scale,
         drawn |-> [x |-> x, y |-> y, width |-> scaledWidth,
                    height |-> scaledHeight]]

\* ctx.lineWidth = 2 of the cut guides, in both layouts.
CutGuideLineWidth == 2

\* ctx.strokeRect(x, y, photoWidthPx, photoHeightPx) for a cell: the area
\* the stroke covers, half the line width to each side of the cell's edges.
\* x and y are fractions.
StrokeArea(x, y, width, height) ==
    LET half == Frac(CutGuideLineWidth, 2)
    IN  [left |-> FracSub(x, half),
         top |-> FracSub(y, half),
         right |-> FracAdd(x, FracAdd(Frac(width, 1), half)),
         bottom |-> FracAdd(y, FracAdd(Frac(height, 1), half))]

\* generateA4Layout with the spacing left out of the cell pitch.
generateA4LayoutNoSpacing(photoDataUrl) ==
    LET photoWidthPx == MmToPx(30)
        photoHeightPx == MmToPx(40)
        marginPx == MmToPx(20)
    IN  [photo |-> photoDataUrl,
         canvas |-> [width |-> MmToPx(210), height |-> MmToPx(297)],
         cells |-> [k \in 1..6 |->
                      [x |-> marginPx + ((k - 1) % 2) * photoWidthPx,
                       y |-> marginPx + ((k - 1) \div 2) * photoHeightPx,
                       width |-> photoWidthPx, height |-> photoHeightPx]]]

\* generateA4Layout, img.onload: the canvas and, in drawing order (row by
\* row), the rectangle each drawImage and strokeRect is given.
generateA4Layout(photoDataUrl) ==
    LET a4WidthMM == 210
        a4HeightMM == 297
        photoWidthMM == 30
        photoHeightMM == 40
        photoWidthPx == MmToPx(photoWidthMM)
        photoHeightPx == MmToPx(photoHeightMM)
        cols == 2
        rows == 3
        marginMM == 20
        spacingMM == 15
        marginPx == MmToPx(marginMM)
        spacingPx == MmToPx(spacingMM)
    IN  [photo |-> photoDataUrl,
         canvas |-> [width |-> MmToPx(a4WidthMM), height |-> MmToPx(a4HeightMM)],
         cells |-> [k \in 1..(rows * cols) |->
                      LET row == (k - 1) \div cols
                          col == (k - 1) % cols
                      IN  [x |-> marginPx + col * (photoWidthPx + spacingPx),
                           y |-> marginPx + row * (photoHeightPx + spacingPx),
                           width |-> photoWidthPx, height |-> photoHeightPx]]]

\* generate10x15Layout with the grid starting one spacing from the top-left
\* corner instead of being centred.
generate10x15LayoutTopLeft(photoDataUrl) ==
    LET photoWidthPx == MmToPx(30)
        photoHeightPx == MmToPx(40)
        spacingPx == MmToPx(5)
    IN  [photo |-> photoDataUrl,
         canvas |-> [width |-> MmToPx(100), height |-> MmToPx(150)],
         cells |-> [k \in 1..9 |->
                      [x |-> Frac(spacingPx + ((k - 1) % 3) * (photoWidthPx + spacingPx), 1),
                       y |-> Frac(spacingPx + ((k - 1) \div 3) * (photoHeightPx + spacingPx), 1),
                       width |-> photoWidthPx, height |-> photoHeightPx]]]

\* generate10x15Layout, img.onload.  marginX and marginY are halves of
\* whole numbers, so the cell origins are fractions.
generate10x15Layout(photoDataUrl) ==
    LET paperWidthMM == 100
        paperHeightMM == 150
        canvas == [width |-> MmToPx(paperWidthMM), height |-> MmToPx(paperHeightMM)]
        photoWidthMM == 30
        photoHeightMM == 40
        photoWidthPx == MmToPx(photoWidthMM)
        photoHeightPx == MmToPx(photoHeightMM)
        cols == 3
        rows == 3
        spacingMM == 5
        spacingPx == MmToPx(spacingMM)
        totalGridWidth == cols * photoWidthPx + (cols - 1) * spacingPx
        totalGridHeight == rows * photoHeightPx + (rows - 1) * spacingPx
        marginX == Frac(canvas.width - totalGridWidth, 2)
        marginY == Frac(canvas.height - totalGridHeight, 2)
    IN  [photo |-> photoDataUrl,
         canvas |-> canvas,
         cells |-> [k \in 1..(rows * cols) |->
                      LET row == (k - 1) \div cols
                          col == (k - 1) % cols
                      IN  [x |-> FracAdd(marginX,
                                         Frac(col * (photoWidthPx + spacingPx), 1)),
                           y |-> FracAdd(marginY,
                                         Frac(row * (photoHeightPx + spacingPx), 1)),
                           width |-> photoWidthPx, height |-> photoHeightPx]]]

(***************************************************************************)
(* The pure functions on their own: each call of FunctionInputs applied    *)
(* once.                                                                   *)
(***************************************************************************)
\* Sizes of the segmented image handed to applyWhiteBackgroundAndResize.
SegmentedWidths == {1, 100, 265, 353, 354, 355, 600, 708, 1000, 3000}
SegmentedHeights == {1, 100, 354, 471, 472, 473, 800, 944, 1000, 4000}

ResizeInputs ==
    { [op |-> "applyWhiteBackgroundAndResize", img |-> [width |-> w, height |-> h]] :
        w \in SegmentedWidths, h \in SegmentedHeights }

\* The processed photos handed to the layout generators, named as the
\* controller names them.
LayoutInputs ==
    { [op |-> o, photoDataUrl |-> processPhoto(d, Box(300, 150, 300, 600))] :
        o \in {"generateA4Layout", "generate10x15Layout"},
        d \in {"portrait", "distant"} }

\* Every coordinate of a landmark group multiplied by k.
ScalePoints(points, k) ==
    [i \in 1..Len(points) |-> Pt(k * points[i].x, k * points[i].y)]

\* Pairs of eyes, each open (EAR 0.3), at the threshold (EAR 0.15, at two
\* sizes), of no width, or a single point, with a non-zero factor k.
EyeShapes == { <<20, 6>>, <<20, 3>>, <<40, 6>>, <<0, 6>>, <<0, 0>> }

EyesInputs ==
    { [op |-> "checkEyesVisible",
       landmarks |-> [leftEye |-> Eye(400, 350, l[1], l[2]),
                      rightEye |-> Eye(500, 350, r[1], r[2])],
       k |-> k] :
        l \in EyeShapes, r \in EyeShapes, k \in {-3, -1, 1, 2, 3, 10} }

\* Landmarks with the right eye centroid eyeDx to the right of and eyeDy
\* below the left one.
AnglesInputs ==
    { [op |-> "calculateFaceAngles",
       landmarks |-> FaceApart(Box(300, 150, 300, 600), eyeDx, eyeDy, noseDx,
                               6, 6, 3).landmarks] :
        eyeDx \in {100, 30, 0, -100},
        eyeDy \in {0, 100, -100, 30},
        noseDx \in {0, 10} }

\* Images and face boxes handed to cropToPassportSize: boxes in the middle,
\* at the 20 px margin and at the edge of the image, of heads from a third to
\* three quarters of the image height and beyond.
CropInputs ==
    { [op |-> "cropToPassportSize",
       img |-> [width |-> W, height |-> H],
       faceData |-> Box(x, y, w, h)] :
        W \in {1000, 600}, H \in {1000, 1500},
        x \in {0, 20, 150, 300}, y \in {0, 20, 150, 400},
        w \in {300, 455}, h \in {333, 500, 600, 750, 905} }

FunctionInputs ==
    ResizeInputs \cup LayoutInputs \cup EyesInputs \cup AnglesInputs \cup CropInputs

InitFunctions ==
    /\ InitApp
    /\ vIn = NoInput
    /\ vOut = NoReport
    /\ gIn \in FunctionInputs
    /\ gOut = NoOutput

\* The call gIn names returns value.
Returns(opName, value) ==
    /\ gOut = NoOutput
    /\ gIn.op = opName
    /\ gOut' = value
    /\ UNCHANGED <<step, imageFile, imageData, validationResult, processedImage,
                   loading, error, modelsLoaded, runs, vIn, vOut, gIn,
                   layoutVars>>

Resize ==
    Returns("applyWhiteBackgroundAndResize", applyWhiteBackgroundAndResize(gIn.img))

LayoutA4 == Returns("generateA4Layout", generateA4Layout(gIn.photoDataUrl))

Layout10x15 == Returns("generate10x15Layout", generate10x15Layout(gIn.photoDataUrl))

\* checkEyesVisible called for the landmarks and for the landmarks scaled by k.
EyesVisible ==
    LET scaled == [leftEye |-> ScalePoints(gIn.landmarks.leftEye, gIn.k),
                   rightEye |-> ScalePoints(gIn.landmarks.rightEye, gIn.k)]
    IN  Returns("checkEyesVisible",
                [ears |-> eyeAspectRatios(gIn.landmarks),
                 passed |-> checkEyesVisible(gIn.landmarks),
                 scaledEars |-> eyeAspectRatios(scaled),
                 scaledPassed |-> checkEyesVisible(scaled)])

FaceAngles == Returns("calculateFaceAngles", calculateFaceAngles(gIn.landmarks))

Crop == Returns("cropToPassportSize", cropToPassportSize(gIn.img, gIn.faceData))

NextFunctions ==
    \/ Resize
    \/ LayoutA4
    \/ Layout10x15
    \/ EyesVisible
    \/ FaceAngles
    \/ Crop

SpecFunctions == InitFunctions /\ [][NextFunctions]_vars

(***************************************************************************)
(* Properties.                                                             *)
(***************************************************************************)
\* The positions of a run inside validatePhoto.
ValidatePcs == {"loadModels", "validate:loadImage", "detect"}

CheckNames(report) == [i \in 1..Len(report.checks) |-> report.checks[i].name]

\* C1: processPhoto is pending only for a run whose validatePhoto returned,
\* for the run's own image data, a report with isValid true; and a run that
\* leaves validatePhoto either starts processPhoto, from the detector's
\* result and with that valid report just stored, or ends with the step set
\* to 'validating' and no processPhoto call.
C1_ProcessOnlyAfterValidReport ==
    /\ [](\A r \in Slots :
            runs[r].pc \in ProcAwaits =>
                /\ runs[r].result # NoReport
                /\ runs[r].result.isValid
                /\ runs[r].result = validatePhoto(ImageOf(runs[r].file.data)))
    /\ [][\A r \in Slots :
            /\ (runs[r].pc \notin ProcAwaits /\ runs'[r].pc \in ProcAwaits) =>
                    /\ runs[r].pc = "detect"
                    /\ validationResult' = runs'[r].result
                    /\ validationResult'.isValid
            /\ (runs[r].pc \in ValidatePcs /\ runs'[r].pc \notin ValidatePcs
                    /\ runs'[r].pc \notin ProcAwaits) =>
                    /\ runs'[r].pc = "idle"
                    /\ step' = "validating"]_vars

\* C1 witness: processPhoto has been called for a valid portrait.
C1_Witness ==
    \E r \in Slots :
        /\ runs[r].pc = "loadImage"
        /\ step = "processing"
        /\ validationResult = runs[r].result
        /\ validationResult.isValid

\* C2: for a detector result with 0 faces or with N > 1 faces the report
\* has exactly one check, faceDetected, failed; isValid is false and
\* faceData is null; for N > 1 the message is the "multiple faces" one and
\* the count it prints reads back as N, for 0 it is the "no face" one.
C2_NotOneFaceReport ==
    (vOut # NoReport /\ Len(vIn.detections) # 1) =>
        /\ CheckNames(vOut) = << "faceDetected" >>
        /\ ~vOut.checks[1].passed
        /\ ~vOut.isValid
        /\ vOut.faceData = NoFaceData
        /\ IF Len(vIn.detections) > 1
           THEN /\ vOut.checks[1].message.text =
                        "Multiple faces detected (${detections.length}). Only one person allowed."
                /\ Len(vOut.checks[1].message.args) = 1
                /\ FromDecimal(vOut.checks[1].message.args[1]) = Len(vIn.detections)
           ELSE vOut.checks[1].message.text = "No face detected in the image"

\* C2 witness: a report for eleven faces.
C2_Witness ==
    /\ vOut # NoReport
    /\ Len(vIn.detections) = 11
    /\ vOut.checks[1].message.args = << <<1, 1>> >>

\* C3: for a detector result with exactly one face the report holds the
\* seven checks in the fixed order, whatever failed; glassesCheck passed
\* with a note; faceData is the face's box and landmarks.
C3_OneFaceReport ==
    (vOut # NoReport /\ Len(vIn.detections) = 1) =>
        /\ CheckNames(vOut) = << "faceDetected", "faceFrontal", "eyesVisible",
                                 "faceInFrame", "headSize", "expression",
                                 "glassesCheck" >>
        /\ vOut.checks[1].passed
        /\ vOut.checks[7].passed
        /\ vOut.checks[7].note # NoNote
        /\ \A i \in 1..6 : vOut.checks[i].note = NoNote
        /\ vOut.faceData =
               [x |-> vIn.detections[1].box.x, y |-> vIn.detections[1].box.y,
                width |-> vIn.detections[1].box.width,
                height |-> vIn.detections[1].box.height,
                landmarks |-> vIn.detections[1].landmarks]

\* C3 witness: a single face that failed faceFrontal and headSize, with the
\* later checks and the face data still reported.
C3_Witness ==
    /\ vOut # NoReport
    /\ Len(vIn.detections) = 1
    /\ Len(vOut.checks) = 7
    /\ ~vOut.checks[2].passed
    /\ ~vOut.checks[5].passed
    /\ vOut.checks[6].passed
    /\ vOut.faceData # NoFaceData

\* C4: isValid is the conjunction of passed over the checks of the report.
C4_IsValidIsConjunction ==
    vOut # NoReport =>
        (vOut.isValid <=> \A i \in 1..Len(vOut.checks) : vOut.checks[i].passed)

\* C4 witness: a single face whose only failed check is expression, and
\* the report invalid.
C4_Witness ==
    /\ vOut # NoReport
    /\ Len(vOut.checks) = 7
    /\ ~vOut.checks[6].passed
    /\ \A i \in (1..7) \ {6} : vOut.checks[i].passed
    /\ ~vOut.isValid

\* A true error of the pipeline is on display.
PipelineError ==
    /\ error # NoError
    /\ error.text \in {"Validation failed: ${err.message}",
                       "Processing failed: ${err.message}"}

\* C5: when model loading, image decoding or detection fails, the run's
\* validatePhoto throws: after the step validationResult is null, an error
\* is recorded and the run has ended without starting processPhoto.
C5_ValidationThrowLeavesNull ==
    [][\A r \in Slots :
        (loadModelsRejected(r) \/ validateImageFailed(r) \/ detectRejected(r)) =>
            /\ validationResult' = NoReport
            /\ error' # NoError
            /\ error'.text = "Validation failed: ${err.message}"
            /\ runs'[r].pc = "idle"]_vars

\* C6: at most one model load (the Promise.all of loadModels) is in
\* progress at any time.
C6_SingleModelLoad ==
    Cardinality({ r \in Slots : runs[r].pc = "loadModels" }) <= 1

\* C7: at most one pipeline run is in flight at any time.
C7_OneRunInFlight == Cardinality(Pending) <= 1

\* C8: with a true error on display and no pipeline work pending, a user
\* action that leads back to the upload step (reset, or the upload itself)
\* is enabled.
C8_NotStuckAfterError ==
    (PipelineError /\ Pending = {}) => (ResetEnabled \/ UploadEnabled)

\* C9: when a stage of processPhoto throws, the run ends with processedImage
\* and the step as they were (the step does not become 'layout'), and a
\* processing error recorded.
C9_ProcessingThrowLeavesNoOutput ==
    [][\A r \in Slots :
        (\E stage \in StagesAt(runs[r].pc) : processRejected(r, stage)) =>
            /\ processedImage' = processedImage
            /\ step' = step
            /\ error' # NoError
            /\ error'.text = "Processing failed: ${err.message}"
            /\ runs'[r].pc = "idle"]_vars

\* C9 witness: background removal failed in a first run: the error is on
\* display, there is no processed photo and the step is still 'processing'.
C9_Witness ==
    /\ PipelineError
    /\ error.message = "background removal"
    /\ processedImage = NoPhoto
    /\ step = "processing"
    /\ Pending = {}

\* The report on display was computed from the image data on display.
ReportIsCurrent ==
    validationResult # NoReport =>
        /\ imageData # Null
        /\ Decodable(imageData)
        /\ validationResult = validatePhoto(ImageOf(imageData))

\* The processed photo on display was made from the image data on display.
PhotoIsCurrent ==
    processedImage # NoPhoto => processedImage.source = imageData

\* C10: handleReset sets the step to 'upload' and every artifact to null;
\* a validation attempt starts by clearing validationResult; and no report
\* or processed photo of another image than the current one is on display.
C10_NoStaleArtifacts ==
    /\ [][handleReset =>
            /\ step' = "upload"
            /\ imageFile' = NoFile
            /\ imageData' = Null
            /\ validationResult' = NoReport
            /\ processedImage' = NoPhoto
            /\ error' = NoError]_vars
    /\ [][\A r \in Slots : readerOnLoad(r) => validationResult' = NoReport]_vars
    /\ [](ReportIsCurrent /\ PhotoIsCurrent)

\* The pixels of a canvas with all four neighbours.
Interior(image) == (1..(image.width - 2)) \X (1..(image.height - 2))

\* C11: after the optimization stage (sharpen, then contrast 1.1), every
\* pixel that was (255, 255, 255) on the recomposed canvas with its four
\* neighbours also (255, 255, 255) is still (255, 255, 255).
C11_WhiteBackgroundPreserved ==
    (gOut # NoOutput /\ gOut.stage = "contrasted") =>
        \A p \in Interior(gIn.imageData) :
            (\A q \in { p, <<p[1] - 1, p[2]>>, <<p[1] + 1, p[2]>>,
                        <<p[1], p[2] - 1>>, <<p[1], p[2] + 1>> } :
                SubSeq(Pixel(gIn.imageData, q[1], q[2]), 1, 3) = <<255, 255, 255>>)
            => SubSeq(Pixel(gOut.imageData, p[1], p[2]), 1, 3) = <<255, 255, 255>>

\* C13: the image applySharpeningFilter returns has, on the outermost
\* one-pixel ring, the input's bytes in all four channels.
C13_SharpenKeepsBorder ==
    (gOut # NoOutput /\ gOut.stage = "sharpened") =>
        \A x \in 0..(gIn.imageData.width - 1), y \in 0..(gIn.imageData.height - 1) :
            <<x, y>> \notin Interior(gIn.imageData) =>
                Pixel(gOut.imageData, x, y) = Pixel(gIn.imageData, x, y)


\* C12: rounding centimetres or millimetres to pixels at 300 DPI gives
\* 354 x 472 for the 3 x 4 cm photo, 2480 x 3508 for the 210 x 297 mm sheet,
\* 1181 x 1772 for the 100 x 150 mm sheet and 354 x 472 for the 30 x 40 mm
\* cell, so every cell of both layouts has the size of the ProcessedPhoto
\* canvas.
C12_PixelDimensions ==
    gOut # NoOutput =>
        LET photoCanvas == applyWhiteBackgroundAndResize([width |-> 1, height |-> 1]).canvas
        IN  /\ gIn.op = "applyWhiteBackgroundAndResize" =>
                    gOut.canvas = [width |-> 354, height |-> 472]
            /\ gIn.op = "generateA4Layout" =>
                    gOut.canvas = [width |-> 2480, height |-> 3508]
            /\ gIn.op = "generate10x15Layout" =>
                    gOut.canvas = [width |-> 1181, height |-> 1772]
            /\ gIn.op \in {"generateA4Layout", "generate10x15Layout"} =>
                    \A k \in 1..Len(gOut.cells) :
                        /\ gOut.cells[k].width = 354
                        /\ gOut.cells[k].height = 472
                        /\ gOut.cells[k].width = photoCanvas.width
                        /\ gOut.cells[k].height = photoCanvas.height

\* C12 witness: the 10 x 15 cm sheet has been laid out, 1772 pixels high
\* (150 mm is 1771.65 pixels).
C12_Witness ==
    /\ gOut # NoOutput
    /\ gIn.op = "generate10x15Layout"
    /\ gOut.canvas.height = 1772
    /\ Len(gOut.cells) > 0


EyeLine ==
    LET landmarks == vIn.detections[1].landmarks
    IN  [Lx |-> SumX(landmarks.leftEye), Rx |-> SumX(landmarks.rightEye),
         dx |-> SumX(landmarks.rightEye) - SumX(landmarks.leftEye),
         dy |-> SumY(landmarks.rightEye) - SumY(landmarks.leftEye),
         noseX |-> landmarks.nose[1].x]

\* |yaw| <= 15 for yaw = 45 * (noseX - (Lx + Rx) / 2) / |Rx - Lx|: a number
\* (the eye centroids differ in x) of magnitude at most 15.
YawWithinLimit ==
    /\ EyeLine.dx # 0
    /\ 45 * Abs(12 * EyeLine.noseX - EyeLine.Lx - EyeLine.Rx)
           <= 15 * 2 * Abs(EyeLine.dx)

\* |roll| <= 15 for roll the angle of the line through the eye centroids.
RollWithinLimit == ~RollExceeds(EyeLine.dy, EyeLine.dx)

\* C15: for exactly one face the faceFrontal check passes iff |yaw| <= 15
\* and |roll| <= 15 degrees, yaw being 45 times the nose's offset from the
\* midpoint of the eye centroids over their horizontal distance and roll the
\* angle of the line through them; a yaw or roll outside the range fails the
\* check and makes isValid false.
C15_FrontalIffWithinLimits ==
    (vOut # NoReport /\ Len(vIn.detections) = 1) =>
        /\ vOut.checks[2].name = "faceFrontal"
        /\ vOut.checks[2].passed <=> (YawWithinLimit /\ RollWithinLimit)
        /\ ~(YawWithinLimit /\ RollWithinLimit) => ~vOut.isValid


\* The single face's box of vIn has every edge at least 20 pixels from the
\* image edge.
BoxWithinMargin ==
    LET box == vIn.detections[1].box
    IN  /\ box.x >= 20
        /\ box.y >= 20
        /\ box.x + box.width <= vIn.width - 20
        /\ box.y + box.height <= vIn.height - 20

\* An edge of the box lies inside the 20 pixel margin.
BoxCrossesMargin ==
    LET box == vIn.detections[1].box
    IN  \/ box.x < 20
        \/ box.y < 20
        \/ box.x + box.width > vIn.width - 20
        \/ box.y + box.height > vIn.height - 20

\* An edge of the box lies exactly on the margin line, 20 pixels from the
\* image edge.
BoxTouchesMargin ==
    LET box == vIn.detections[1].box
    IN  \/ box.x = 20
        \/ box.y = 20
        \/ box.x + box.width = vIn.width - 20
        \/ box.y + box.height = vIn.height - 20

\* C16 as stated: faceInFrame passes iff box.x >= 20, box.y >= 20,
\* box.x + box.width <= W - 20 and box.y + box.height <= H - 20, and a box
\* touching or crossing the 20 pixel margin on any side fails the check and
\* makes isValid false.
C16_TouchingOrCrossingFails ==
    (vOut # NoReport /\ Len(vIn.detections) = 1) =>
        /\ vOut.checks[4].name = "faceInFrame"
        /\ vOut.checks[4].passed <=> BoxWithinMargin
        /\ (BoxTouchesMargin \/ BoxCrossesMargin) =>
                (~vOut.checks[4].passed /\ ~vOut.isValid)

\* C16, amended: faceInFrame passes iff box.x >= 20, box.y >= 20,
\* box.x + box.width <= W - 20 and box.y + box.height <= H - 20; a box
\* crossing the 20 pixel margin on any side fails the check and makes isValid
\* false, and a box that touches the margin line without crossing it passes.
C16_CrossingFailsTouchingPasses ==
    (vOut # NoReport /\ Len(vIn.detections) = 1) =>
        /\ vOut.checks[4].name = "faceInFrame"
        /\ vOut.checks[4].passed <=> BoxWithinMargin
        /\ BoxCrossesMargin => (~vOut.checks[4].passed /\ ~vOut.isValid)
        /\ (BoxTouchesMargin /\ ~BoxCrossesMargin) => vOut.checks[4].passed

\* C16 witness: a box with its left and top edges on the margin line has
\* passed faceInFrame in a valid report.
C16_Witness ==
    /\ vOut # NoReport
    /\ Len(vIn.detections) = 1
    /\ vIn.detections[1].box.x = 20
    /\ vIn.detections[1].box.y = 20
    /\ vOut.checks[4].passed
    /\ vOut.isValid


\* The quotients p.num / p.den and q.num / q.den are the same number:
\* both Infinity, both NaN, or equal fractions.
SameQuotient(p, q) ==
    IF p.den = 0 \/ q.den = 0
    THEN p.den = 0 /\ q.den = 0 /\ (p.num = 0 <=> q.num = 0)
    ELSE p.num * q.den = q.num * p.den

CentroidOffset ==
    [dx |-> SumX(gIn.landmarks.rightEye) - SumX(gIn.landmarks.leftEye),
     dy |-> SumY(gIn.landmarks.rightEye) - SumY(gIn.landmarks.leftEye)]

\* The roll calculateFaceAngles returned, in degrees.
ReturnedRoll == Atan2Degrees(gOut.rollDy, gOut.rollDx)

\* C18 as stated: calculateFaceAngles returns roll = 0 degrees for every
\* pair of eye centroids at equal height (dy = 0), and roll = 45 degrees
\* when the centroids differ by 100 in x and 100 in y.
C18_LevelEyesRollZero ==
    (gOut # NoOutput /\ gIn.op = "calculateFaceAngles") =>
        /\ CentroidOffset.dy = 0 => ReturnedRoll = [whole |-> TRUE, degrees |-> 0]
        /\ (CentroidOffset.dx = 600 /\ CentroidOffset.dy = 600) =>
                ReturnedRoll = [whole |-> TRUE, degrees |-> 45]

\* C18, amended: calculateFaceAngles returns roll = 0 degrees for eye
\* centroids at equal height when the right centroid is not to the left of
\* the left one (dx >= 0) and roll = 180 degrees when it is (dx < 0); roll
\* is 45 degrees when the centroids differ by 100 in x and 100 in y.
C18_LevelEyesRollZeroOr180 ==
    (gOut # NoOutput /\ gIn.op = "calculateFaceAngles") =>
        /\ (CentroidOffset.dy = 0 /\ CentroidOffset.dx >= 0) =>
                ReturnedRoll = [whole |-> TRUE, degrees |-> 0]
        /\ (CentroidOffset.dy = 0 /\ CentroidOffset.dx < 0) =>
                ReturnedRoll = [whole |-> TRUE, degrees |-> 180]
        /\ (CentroidOffset.dx = 600 /\ CentroidOffset.dy = 600) =>
                ReturnedRoll = [whole |-> TRUE, degrees |-> 45]

\* C18 witness: the angles of eye centroids 100 apart in x and in y have
\* been returned, with a roll of 45 degrees.
C18_Witness ==
    /\ gOut # NoOutput
    /\ gIn.op = "calculateFaceAngles"
    /\ CentroidOffset = [dx |-> 600, dy |-> 600]
    /\ ReturnedRoll = [whole |-> TRUE, degrees |-> 45]


\* C19: for every segmented image of positive width w and height h,
\* applyWhiteBackgroundAndResize draws it with the one scale
\* min(354 / w, 472 / h) in both directions; the drawn rectangle fits inside
\* the 354 x 472 canvas, with the left margin equal to the right and the top
\* equal to the bottom, and for w > 354 and h > 472 the scale is below 1.
C19_UniformScaleCentred ==
    (gOut # NoOutput /\ gIn.op = "applyWhiteBackgroundAndResize") =>
        LET w == gIn.img.width
            h == gIn.img.height
            drawn == gOut.drawn
            right == FracAdd(drawn.x, drawn.width)
            bottom == FracAdd(drawn.y, drawn.height)
        IN  /\ FracLE(gOut.scale, Frac(354, w))
            /\ FracLE(gOut.scale, Frac(472, h))
            /\ FracEq(gOut.scale, Frac(354, w)) \/ FracEq(gOut.scale, Frac(472, h))
            /\ FracEq(drawn.width, Frac(w * gOut.scale.num, gOut.scale.den))
            /\ FracEq(drawn.height, Frac(h * gOut.scale.num, gOut.scale.den))
            /\ FracLE(Frac(0, 1), drawn.x)
            /\ FracLE(Frac(0, 1), drawn.y)
            /\ FracLE(right, Frac(354, 1))
            /\ FracLE(bottom, Frac(472, 1))
            /\ FracEq(drawn.x, FracAdd(Frac(354, 1), Frac(0 - right.num, right.den)))
            /\ FracEq(drawn.y, FracAdd(Frac(472, 1), Frac(0 - bottom.num, bottom.den)))
            /\ (w > 354 /\ h > 472) => FracLT(gOut.scale, Frac(1, 1))

\* C19 witness: a 600 x 1000 image has been drawn at scale 0.472, 283.2
\* pixels wide with 35.4 pixels left and right, over the full height.
C19_Witness ==
    /\ gOut # NoOutput
    /\ gIn.op = "applyWhiteBackgroundAndResize"
    /\ gIn.img = [width |-> 600, height |-> 1000]
    /\ gOut.scale = Frac(472, 1000)
    /\ gOut.drawn.width = Frac(2832, 10)
    /\ gOut.drawn.x = Frac(354, 10)
    /\ gOut.drawn.y = Frac(0, 1)


\* Two rectangles [x, y, width, height] share a point of positive area.
Overlap(a, b) ==
    /\ a.x < b.x + b.width
    /\ b.x < a.x + a.width
    /\ a.y < b.y + b.height
    /\ b.y < a.y + a.height

\* C20: generateA4Layout places exactly 6 cells (2 columns x 3 rows) of
\* 354 x 472 pixels on a 2480 x 3508 canvas, cell (col, row) at
\* x = 236 + col * (354 + 177), y = 236 + row * (472 + 177), 236 and 177
\* being 20 mm and 15 mm in pixels; every cell lies inside the canvas and no
\* two cells overlap.
C20_A4Grid ==
    (gOut # NoOutput /\ gIn.op = "generateA4Layout") =>
        /\ gOut.canvas = [width |-> 2480, height |-> 3508]
        /\ Len(gOut.cells) = 6
        /\ MmToPx(20) = 236
        /\ MmToPx(15) = 177
        /\ \A col \in 0..1, row \in 0..2 :
                gOut.cells[row * 2 + col + 1] =
                    [x |-> 236 + col * (354 + 177), y |-> 236 + row * (472 + 177),
                     width |-> 354, height |-> 472]
        /\ \A k \in 1..Len(gOut.cells) :
                /\ gOut.cells[k].x >= 0
                /\ gOut.cells[k].y >= 0
                /\ gOut.cells[k].x + gOut.cells[k].width <= gOut.canvas.width
                /\ gOut.cells[k].y + gOut.cells[k].height <= gOut.canvas.height
        /\ \A j, k \in 1..Len(gOut.cells) :
                j # k => ~Overlap(gOut.cells[j], gOut.cells[k])

\* C20 witness: the A4 sheet has been laid out with its last cell, column 1
\* of row 2, at (767, 1534).
C20_Witness ==
    /\ gOut # NoOutput
    /\ gIn.op = "generateA4Layout"
    /\ Len(gOut.cells) = 6
    /\ gOut.cells[6] = [x |-> 767, y |-> 1534, width |-> 354, height |-> 472]


\* The rectangle of a cell of the 10 x 15 sheet, every number a fraction.
FracRect(cell) ==
    [left |-> cell.x, top |-> cell.y,
     right |-> FracAdd(cell.x, Frac(cell.width, 1)),
     bottom |-> FracAdd(cell.y, Frac(cell.height, 1))]

\* Two such rectangles share a point of positive area.
FracOverlap(a, b) ==
    /\ FracLT(a.left, b.right)
    /\ FracLT(b.left, a.right)
    /\ FracLT(a.top, b.bottom)
    /\ FracLT(b.top, a.bottom)

\* C21: generate10x15Layout places exactly 9 cells (3 x 3) of 354 x 472
\* pixels, 59 pixels (5 mm) apart, on a 1181 x 1772 canvas, the grid centred
\* on each axis by margin = (canvasDim - gridExtent) / 2: the left margin
\* equals the right one and the top margin the bottom one, every cell lies
\* inside the canvas and no two cells overlap.
C21_PhotoPaperGrid ==
    (gOut # NoOutput /\ gIn.op = "generate10x15Layout") =>
        LET marginX == Frac(1181 - (3 * 354 + 2 * 59), 2)
            marginY == Frac(1772 - (3 * 472 + 2 * 59), 2)
            first == FracRect(gOut.cells[1])
            last == FracRect(gOut.cells[Len(gOut.cells)])
        IN  /\ gOut.canvas = [width |-> 1181, height |-> 1772]
            /\ Len(gOut.cells) = 9
            /\ MmToPx(5) = 59
            /\ \A col \in 0..2, row \in 0..2 :
                    LET cell == gOut.cells[row * 3 + col + 1]
                    IN  /\ cell.width = 354
                        /\ cell.height = 472
                        /\ FracEq(cell.x, FracAdd(marginX, Frac(col * (354 + 59), 1)))
                        /\ FracEq(cell.y, FracAdd(marginY, Frac(row * (472 + 59), 1)))
            /\ FracEq(first.left,
                      FracAdd(Frac(1181, 1), Frac(0 - last.right.num, last.right.den)))
            /\ FracEq(first.top,
                      FracAdd(Frac(1772, 1), Frac(0 - last.bottom.num, last.bottom.den)))
            /\ \A k \in 1..Len(gOut.cells) :
                    /\ FracLE(Frac(0, 1), FracRect(gOut.cells[k]).left)
                    /\ FracLE(Frac(0, 1), FracRect(gOut.cells[k]).top)
                    /\ FracLE(FracRect(gOut.cells[k]).right, Frac(1181, 1))
                    /\ FracLE(FracRect(gOut.cells[k]).bottom, Frac(1772, 1))
            /\ \A j, k \in 1..Len(gOut.cells) :
                    j # k => ~FracOverlap(FracRect(gOut.cells[j]), FracRect(gOut.cells[k]))

\* C21 witness: the 10 x 15 sheet has been laid out with half a pixel left
\* of the first cell and its centre cell at (413.5, 650).
C21_Witness ==
    /\ gOut # NoOutput
    /\ gIn.op = "generate10x15Layout"
    /\ gOut.cells[1].x = Frac(1, 2)
    /\ gOut.cells[5].x = Frac(827, 2)
    /\ gOut.cells[5].y = Frac(650, 1)


(***************************************************************************)
(* Sheet generation and LayoutSelection.                                   *)
(***************************************************************************)
\* Generation i fails in this step: its source photo fails to load, or its
\* img.onload callback throws while drawing or encoding.
GenerationFails(i) == layoutImageFailed(i) \/ layoutImageLoadedThrows(i)

\* C22: whenever a sheet generation fails, its promise rejects (the generation
\* is no longer pending after the failure has been handled), nothing is
\* handed to downloadImage, and the loading flag of the instance that
\* started it is false again.
C22_FailureRejects ==
    [][\A i \in 1..MaxSheets :
          GenerationFails(i) =>
              /\ Len(sheets') = Len(sheets) - 1
              /\ downloaded' = downloaded
              /\ sheets[i].mounted => ~layoutLoading']_vars

\* A download handler starts in this step.
DownloadStarts == handleSingleDownload \/ handleA4Download \/ handle10x15Download

\* C29: at most one sheet generation is pending at a time; while one is
\* pending and LayoutSelection is on screen the loading flag is true, so the
\* three download buttons are disabled; and no generation or download
\* starts in a step taken while a generation is pending.
C29_OneGenerationInFlight ==
    /\ [](Len(sheets) <= 1)
    /\ []((sheets # <<>> /\ step = "layout") => (layoutLoading /\ ~DownloadEnabled))
    /\ [][sheets # <<>> => ~DownloadStarts]_vars

(***************************************************************************)
(* validation.js: loadModels.                                              *)
(***************************************************************************)
\* A validatePhoto call starts the model loads in this step.
StartsModelLoad(r) == runs'[r].pc = "loadModels" /\ runs[r].pc # "loadModels"

\* C23: once a loadModels call has completed successfully (modelsLoaded is
\* true), the flag stays true and no later validatePhoto call starts a model
\* load, however many calls follow.
C23_LoadModelsIdempotent ==
    [][modelsLoaded => /\ modelsLoaded'
                       /\ \A r \in Slots : ~StartsModelLoad(r)]_vars

\* A call made after an earlier run has gone through loadModels, validation
\* and processing: the earlier run has stored its photo, the later one then
\* set the step back to 'validating' and waits for its image, not for models.
C23_Witness ==
    /\ modelsLoaded
    /\ processedImage # NoPhoto
    /\ step = "validating"
    /\ runs[1].pc = "idle"
    /\ runs[2].pc = "validate:loadImage"

(***************************************************************************)
(* utils/processing.js: cropToPassportSize.                                *)
(***************************************************************************)
Cropped == gOut # NoOutput /\ gIn.op = "cropToPassportSize"

\* The frame of the claims: frameHeight = 1.6 x box.height and frameWidth
\* = 0.75 x frameHeight, as fractions of tenths.
ClaimedFrameHeight == Frac(16 * gIn.faceData.height, 10)
ClaimedFrameWidth == Frac(12 * gIn.faceData.height, 10)

\* faceCenterX - frameWidth / 2 and faceCenterY - 0.4 x frameHeight, in
\* hundredths.
ClaimedCropX ==
    Frac(100 * gIn.faceData.x + 50 * gIn.faceData.width - 60 * gIn.faceData.height, 100)
ClaimedCropY ==
    Frac(100 * gIn.faceData.y + 50 * gIn.faceData.height - 64 * gIn.faceData.height, 100)

\* C24: for every face box the source rectangle is frameWidth x frameHeight,
\* its origin is the computed origin with negative coordinates replaced by 0
\* (neither re-centred nor resized), and the image returned is
\* round(frameWidth) x round(frameHeight) pixels.
C24_CropFrame ==
    Cropped =>
        /\ FracEq(gOut.source.width, ClaimedFrameWidth)
        /\ FracEq(gOut.source.height, ClaimedFrameHeight)
        /\ FracEq(gOut.source.x,
                  IF ClaimedCropX.num < 0 THEN Frac(0, 1) ELSE ClaimedCropX)
        /\ FracEq(gOut.source.y,
                  IF ClaimedCropY.num < 0 THEN Frac(0, 1) ELSE ClaimedCropY)
        /\ gOut.canvas.width =
              MathRound(ClaimedFrameWidth.num, ClaimedFrameWidth.den)
        /\ gOut.canvas.height =
              MathRound(ClaimedFrameHeight.num, ClaimedFrameHeight.den)

\* A 300 x 333 box at (20, 20): the computed origin is (-29.8, -26.62), the
\* rectangle sampled is 399.6 x 532.8 at (0, 0) and the canvas is 400 x 533.
C24_Witness ==
    /\ Cropped
    /\ gIn.faceData = Box(20, 20, 300, 333)
    /\ gOut.source = [x |-> Frac(0, 1), y |-> Frac(0, 1),
                      width |-> Frac(1998, 5), height |-> Frac(2664, 5)]
    /\ gOut.canvas = [width |-> 400, height |-> 533]

(***************************************************************************)
(* App.jsx: the layout step.                                               *)
(***************************************************************************)
\* C25: whenever the step is 'layout', processedImage is non-null,
\* validationResult is non-null and valid, and both were computed from the
\* imageData currently held: the report is validatePhoto of that image and
\* the photo is processPhoto of that image and the report's face box.
C25_LayoutHasCurrentArtifacts ==
    step = "layout" =>
        /\ processedImage # NoPhoto
        /\ validationResult # NoReport
        /\ validationResult.isValid
        /\ imageData # Null
        /\ Decodable(imageData)
        /\ validationResult = validatePhoto(ImageOf(imageData))
        /\ processedImage = processPhoto(imageData, validationResult.faceData)

\* The box of the call passes the two checks of validatePhoto that look at
\* it: faceInFrame with the 20 px margin and headSize within [0.50, 0.75].
BoxPassesValidation ==
    /\ checkFaceInFrame(gIn.faceData, gIn.img.width, gIn.img.height)
    /\ ~headTooSmall(gIn.faceData, gIn.img)
    /\ ~headTooLarge(gIn.faceData, gIn.img)

\* C26: for every image and face box that pass validation, the source
\* rectangle cropToPassportSize samples lies inside the source image: its
\* right edge is at most image.width and its bottom edge at most
\* image.height.
C26_CropInsideImage ==
    (Cropped /\ BoxPassesValidation) =>
        /\ FracLE(FracAdd(gOut.source.x, gOut.source.width), Frac(gIn.img.width, 1))
        /\ FracLE(FracAdd(gOut.source.y, gOut.source.height), Frac(gIn.img.height, 1))

(***************************************************************************)
(* utils/validation.js: ratios with a zero divisor.                        *)
(***************************************************************************)
\* The divisors of the three ratios for the single face of vIn: the eye
\* widths of EAR, the mouth width of MAR and the distance of yaw.
Divisors ==
    LET landmarks == vIn.detections[1].landmarks
    IN  [leftEyeWidth |-> Abs(landmarks.leftEye[4].x - landmarks.leftEye[1].x),
         rightEyeWidth |-> Abs(landmarks.rightEye[4].x - landmarks.rightEye[1].x),
         mouthWidth |-> Abs(landmarks.mouth[13].x - landmarks.mouth[17].x),
         faceWidth |-> Abs(EyeLine.dx)]

\* The check called name of the returned report.
CheckOf(name) ==
    LET i == CHOOSE j \in 1..Len(vOut.checks) : vOut.checks[j].name = name
    IN  vOut.checks[i]

\* C27: for exactly one face, when an eye has no horizontal span the
\* eyesVisible check fails, when the mouth has none the expression check
\* fails, and when the eye centroids have no horizontal distance the
\* faceFrontal check fails; in each case isValid is false.
C27_ZeroDivisorFails ==
    (vOut # NoReport /\ Len(vIn.detections) = 1) =>
        /\ (Divisors.leftEyeWidth = 0 \/ Divisors.rightEyeWidth = 0)
              => (~CheckOf("eyesVisible").passed /\ ~vOut.isValid)
        /\ Divisors.mouthWidth = 0
              => (~CheckOf("expression").passed /\ ~vOut.isValid)
        /\ Divisors.faceWidth = 0
              => (~CheckOf("faceFrontal").passed /\ ~vOut.isValid)

(***************************************************************************)
(* utils/layoutGeneration.js: the cut guides.                              *)
(***************************************************************************)
LaidOut ==
    gOut # NoOutput /\ gIn.op \in {"generateA4Layout", "generate10x15Layout"}

\* The origin of cell k of the sheet returned, as fractions (the A4 cells
\* are returned with whole coordinates).
CellOrigin(k) ==
    IF gIn.op = "generateA4Layout"
    THEN [x |-> Frac(gOut.cells[k].x, 1), y |-> Frac(gOut.cells[k].y, 1)]
    ELSE [x |-> gOut.cells[k].x, y |-> gOut.cells[k].y]

\* The origin of cell k is a whole pixel coordinate.
WholeOrigin(k) == CellOrigin(k).x.den = 1 /\ CellOrigin(k).y.den = 1

CutGuide(k) ==
    StrokeArea(CellOrigin(k).x, CellOrigin(k).y,
               gOut.cells[k].width, gOut.cells[k].height)

\* The cut-guide stroke of cell k lies inside the canvas.
StrokeInside(k) ==
    /\ FracLE(Frac(0, 1), CutGuide(k).left)
    /\ FracLE(Frac(0, 1), CutGuide(k).top)
    /\ FracLE(CutGuide(k).right, Frac(gOut.canvas.width, 1))
    /\ FracLE(CutGuide(k).bottom, Frac(gOut.canvas.height, 1))

\* C28: in both print layouts every cut-guide stroke, 2 px wide and centred
\* on the cell edge, lies entirely inside the sheet canvas, and every cell
\* origin is a whole pixel coordinate.
C28_CutGuidesInsideCanvas ==
    LaidOut =>
        \A k \in DOMAIN gOut.cells : StrokeInside(k) /\ WholeOrigin(k)

====
